---- MODULE Spec2Model ----
(***************************************************************************)
(* Animation and lip-sync engine of the avatar canvas                      *)
(* (src/app/components/ThreeCanvas.tsx).                                   *)
(*                                                                         *)
(* Time is counted in quanta.  The audio clock and the timers advance      *)
(* together in the action AdvanceTime; an event that is due (a source      *)
(* reaching the end of its buffer, a timer reaching zero) is delivered     *)
(* before time advances further.  The render tick, the requests of the     *)
(* caller and the completions of fetches interleave freely.                *)
(***************************************************************************)
EXTENDS Integers, Sequences, FiniteSets, TLC

\* ---------------------------------------------------------------- bounds
MaxUtter == 2        \* speak requests issued in one run
MaxLoco == 2         \* locomotion requests issued in one run
MaxCues == 2         \* cues in one cue list
MaxOnset == 1        \* latest cue onset, in quanta
MaxDur == 1          \* longest audio buffer, in quanta
MaxGestureCalls == 2 \* playGestures calls issued in one run
MaxGestures == 2     \* gesture clips in one playGestures call
MaxLoads == 3        \* asset load requests issued in one run
MaxTracks == 2       \* tracks in one source clip
MaxPasses == 2       \* retargetClip calls on one clip
WeightScale == 20    \* a blendshape weight of 1, in the fixed-point unit of the model
MaxDelta == 20       \* longest frame delta, in hundredths of a second
MaxTypingCalls == 2  \* setTyping calls issued in one run without a configured typing clip
MaxBvhCalls == 2     \* BVHAnimationPlayer.play calls issued in one run
MaxBvhClips == 2     \* motion files given to one play call

\* ------------------------------------------------------ program constants
\* source.start(audioCtx.currentTime + 0.06): one quantum of lookahead
StartDelay == 1
\* setTimeout(..., 2000) in source.onended: two quanta of cool-down
CoolDown == 2
\* releaseTypingPose(1400) in onTypingFinished: one quantum of hold
HoldDelay == 1

Utter == 1..MaxUtter
LocoIds == 1..MaxLoco
GestureCalls == 1..MaxGestureCalls
TypingCalls == 1..MaxTypingCalls
BvhCalls == 1..MaxBvhCalls
Clips == 1..MaxBvhClips
NoTimer == 0 - 1

\* the audio age saturates once every onset and every buffer end is passed
MaxAge == (IF MaxOnset > MaxDur THEN MaxOnset ELSE MaxDur) + 1

\* the resource URLs the engine is asked to load
Urls == {"u1", "u2"}

VisemeKeys == {"viseme_aa", "viseme_sil"}
Emotions == {"neutral", "happy"}

\* rhubarbToVisemeMap: the jaw amount the caller attaches to each viseme (x100)
JawOf(v) == IF v = "viseme_aa" THEN 40 ELSE 0

Cue(t, v) == [time |-> t, value |-> v, jaw |-> JawOf(v)]

Sorted(cues) == \A i \in 1..(Len(cues) - 1) : cues[i].time <= cues[i + 1].time

\* cue lists as the caller builds them: ordered by onset, onsets distinct
CueLists ==
  LET Raw(n) == [1..n -> {Cue(t, v) : t \in 0..MaxOnset, v \in VisemeKeys}]
  IN UNION {{c \in Raw(n) : \A i \in 1..(n - 1) : c[i].time < c[i + 1].time}
            : n \in 0..MaxCues}

ZeroVisemes == [k \in VisemeKeys |-> 0]

VARIABLES
  \* --- configuration (props) and asset load
  introAnimationUrl,       \* TRUE when an intro clip is configured
  loopActions,             \* loopActionsRef: the playlist of one-shot actions
  loaded,                  \* assets resolved: mixer, body mesh, face mesh, idle action exist
  \* --- speech
  speakPc,                 \* per speak request: position in playAudioWithEmotionAndLipSync
  src,                     \* per speak request: its AudioBufferSourceNode
  onended,                 \* per speak request: source.onended is attached
  srcRemaining,            \* per source: quanta until its buffer has played out
  coolTimer,               \* per speak request: the 2000 ms timer of onended
  audioSourceRef,          \* audioSourceRef.current (0 = null)
  visemes,                 \* faceMesh.userData.visemes
  audioStartSet,           \* faceMesh.userData.audioStartTime is a number
  audioAge,                \* audioCtx.currentTime - faceMesh.userData.audioStartTime
  isWaitingAfterTalk,      \* isWaitingAfterTalkRef
  currentVisemeIndex,      \* currentVisemeIndexRef
  targetVisemeWeights,
  targetJawOpen,
  currentSpeechEmotion,
  \* --- animation layers
  animationState,          \* animationStateRef
  act,                     \* play state of each mixer action
  currentLoopAction,       \* currentLoopActionRef ("none" = null)
  currentLoopIndex,        \* currentLoopIndexRef
  currentlyPlayingTalkingAction,
  typingActive,            \* typingActiveRef
  typingQuat,              \* typingHeadQuatRef / typingNeckQuatRef ("none" = null)
  typingListener,          \* onTypingFinished is attached to the mixer
  headQuat,                \* head and neck bone rotation: "bind", "anim" (written by the
                           \* mixer, with or without additive motion on top) or "held"
                           \* (the rotation captured when the typing one-shot finished)
  typingHoldTimer,         \* typingHoldTimeoutRef (NoTimer = null)
  holdSurvivedSpeech,      \* the pending hold timer was pending when a speak request
                           \* cleared the typing overlay
  skeletonPose,            \* "bind" after skeleton.pose(), "animated" once the mixer wrote it
  modelRoot,               \* model root transform ("start" = modelStartPos/Quat)
  \* --- locomotion
  locoPc,                  \* per locomotion request: position in playAnimation
  locoAct,                 \* per locomotion request: play state of its action
  locoListener,            \* per locomotion request: onFinished is attached to the mixer
  rootAtRequest,           \* per locomotion request: model root when the request was made
  isFollowing,             \* isFollowingRef
  cameraPos,               \* camera.position
  controlsEnabled,         \* controls.enablePan / enableRotate / enableDamping
  cameraStartPos,          \* cameraStartPosRef
  prevControlsState,       \* prevControlsStateRef ("none" = null)
  \* --- gestures
  gPc,                     \* per playGestures call: position in its loop
  gLeft,                   \* per playGestures call: clips of its list not yet handled
  gAct,                    \* per playGestures call: play state of its current gesture action
  gPrev,                   \* per playGestures call: the action captured to be restored
  \* --- asset loaders
  gltfPromiseCache,        \* Map url -> promise, as the fetch the promise stands for (0 = absent)
  fbxPromiseCache,
  fetches,                 \* the fetches the loaders have started, in order
  awaited,                 \* per load request, in order: the fetch whose result it gets
  \* --- retargeting
  clipLoaded,              \* a loader has delivered a clip
  clipGiven,               \* the track names of the clip as the loader delivered it
  clipTracks,              \* clip.tracks of that clip object, as track names
  clipPasses,              \* calls of retargetClip on the clip so far
  clipDeduped,             \* playGestures has deduplicated the hand rotation tracks
  \* --- face
  isBlinking,              \* a blink is in progress
  eyeBlink,                \* the influence written to eyeBlinkLeft and eyeBlinkRight
  isLooking,               \* a gaze saccade is in progress
  lookTarget,              \* lookTarget: "zero", or the direction with a non-zero target
  morphInfluence,          \* one entry of faceMesh.morphTargetInfluences, in 1/WeightScale
  morphTarget,             \* the target of that entry, in 1/WeightScale
  \* --- typing clip loaded on demand
  dynPc,                   \* per setTyping call: position in its dynamic load
  dynAct,                  \* per setTyping call: play state of the typing action it created
  dynListener,             \* per setTyping call: onDynFinished is attached to the mixer
  dynTypingAction,         \* typingActionRef, as the call that created the action (0 = null)
  \* --- motion sequence player (src/CharacterController.tsx)
  bvhPc,                   \* per play call: position in play
  bvhCount,                \* per play call: bvhUrls.length
  hadParent,               \* per play call: rootObj had a parent when the call hid it
  modelAttached,           \* rootObj is a child of the scene
  modelVisible,            \* the meshes under rootObj are visible
  bvhIdle,                 \* play state of idleAction
  otherAct,                \* play state of a one-shot action of the mixer that belongs
                           \* to no sequence
  seqAct,                  \* per play call and clip: play state of sequenceActions[i]
  currentActionIndex,      \* per play call: the closure variable of onActionFinished
  seqListener,             \* per play call: onActionFinished is attached to the mixer
  idleRestarts,            \* per play call: times its onActionFinished faded idle back in
  \* --- history
  latest,                  \* the last speak request that passed its readiness check
  visemesOwner,            \* the speak request whose cue list is installed (0 = none)
  issuedInCoolDown,        \* per speak request: the utterances whose cool-down timer was
                           \* running when the request was issued
  staleCues                \* a cue list is installed that was there when the latest
                           \* speak request began

speechVars == <<speakPc, src, onended, srcRemaining, coolTimer,
                audioSourceRef, visemes, audioStartSet, audioAge, isWaitingAfterTalk,
                currentVisemeIndex, targetVisemeWeights, targetJawOpen,
                currentSpeechEmotion, latest, visemesOwner, staleCues,
                issuedInCoolDown>>
layerVars == <<animationState, act, currentLoopAction, currentLoopIndex,
               currentlyPlayingTalkingAction, typingActive, typingQuat,
               typingHoldTimer, skeletonPose, modelRoot, typingListener, headQuat,
               holdSurvivedSpeech>>
locoVars == <<locoPc, locoAct, locoListener, rootAtRequest, isFollowing, cameraPos,
              controlsEnabled, cameraStartPos, prevControlsState>>
gestureVars == <<gPc, gLeft, gAct, gPrev>>
cfgVars == <<introAnimationUrl, loopActions, loaded>>
loadVars == <<gltfPromiseCache, fbxPromiseCache, fetches, awaited>>
retargetVars == <<clipLoaded, clipGiven, clipTracks, clipPasses, clipDeduped>>
faceVars == <<isBlinking, eyeBlink, isLooking, lookTarget>>
blendVars == <<morphInfluence, morphTarget>>
dynTypingVars == <<dynPc, dynAct, dynListener, dynTypingAction>>
bvhVars == <<bvhPc, bvhCount, hadParent, modelAttached, modelVisible, bvhIdle, otherAct,
            seqAct, currentActionIndex, seqListener, idleRestarts>>
vars == <<cfgVars, speechVars, layerVars, locoVars, gestureVars, loadVars, retargetVars,
          faceVars, blendVars, dynTypingVars, bvhVars>>

BaseActions == {"idle", "intro", "interrupt", "ambient", "talking", "typing"}

\* AnimationAction.isRunning(): scheduled, enabled and not paused
IsRunning(a) == a \in {"playing", "fadingOut"}

\* an action that still writes the skeleton (a clamped one-shot holds its last frame)
HasWeight(a) == a \in {"playing", "fadingOut", "clamped"}

Init ==
  /\ introAnimationUrl \in BOOLEAN
  /\ loopActions \in {<<>>, <<"interrupt", "ambient">>}
  /\ loaded = FALSE
  /\ speakPc = [u \in Utter |-> "unissued"]
  /\ src = [u \in Utter |-> "none"]
  /\ onended = [u \in Utter |-> FALSE]
  /\ srcRemaining = [u \in Utter |-> 0]
  /\ coolTimer = [u \in Utter |-> NoTimer]
  /\ audioSourceRef = 0
  /\ visemes = <<>>
  /\ audioStartSet = FALSE
  /\ audioAge = 0
  /\ isWaitingAfterTalk = FALSE
  /\ currentVisemeIndex = 0
  /\ targetVisemeWeights = ZeroVisemes
  /\ targetJawOpen = 0
  /\ currentSpeechEmotion = "neutral"
  /\ animationState = IF introAnimationUrl THEN "intro" ELSE "idle"
  /\ act = [a \in BaseActions |-> "off"]
  /\ currentLoopAction = "none"
  /\ currentLoopIndex = 0 - 1
  /\ currentlyPlayingTalkingAction = "none"
  /\ typingActive = FALSE
  /\ typingQuat = "none"
  /\ typingListener = FALSE
  /\ headQuat = "bind"
  /\ typingHoldTimer = NoTimer
  /\ holdSurvivedSpeech = FALSE
  /\ skeletonPose = "bind"
  /\ modelRoot = "start"
  /\ locoPc = [r \in LocoIds |-> "unissued"]
  /\ locoAct = [r \in LocoIds |-> "none"]
  /\ locoListener = [r \in LocoIds |-> FALSE]
  /\ rootAtRequest = [r \in LocoIds |-> "start"]
  /\ isFollowing = FALSE
  /\ cameraPos = "start"
  /\ controlsEnabled = TRUE
  /\ cameraStartPos = "start"
  /\ prevControlsState = "none"
  /\ gPc = [c \in GestureCalls |-> "unissued"]
  /\ gLeft = [c \in GestureCalls |-> 0]
  /\ gAct = [c \in GestureCalls |-> "none"]
  /\ gPrev = [c \in GestureCalls |-> "none"]
  /\ latest = 0
  /\ visemesOwner = 0
  /\ staleCues = FALSE
  /\ issuedInCoolDown = [u \in Utter |-> {}]
  /\ gltfPromiseCache = [u \in Urls |-> 0]
  /\ fbxPromiseCache = [u \in Urls |-> 0]
  /\ fetches = <<>>
  /\ awaited = <<>>
  /\ clipLoaded = FALSE
  /\ clipGiven = <<>>
  /\ clipTracks = <<>>
  /\ clipPasses = 0
  /\ clipDeduped = FALSE
  /\ isBlinking = FALSE
  /\ eyeBlink = 0
  /\ isLooking = FALSE
  /\ lookTarget = "zero"
  /\ morphInfluence = 0
  /\ morphTarget = 0
  /\ dynPc = [k \in TypingCalls |-> "unissued"]
  /\ dynAct = [k \in TypingCalls |-> "none"]
  /\ dynListener = [k \in TypingCalls |-> FALSE]
  /\ dynTypingAction = 0
  /\ bvhPc = [c \in BvhCalls |-> "unissued"]
  /\ bvhCount = [c \in BvhCalls |-> 0]
  /\ hadParent = [c \in BvhCalls |-> FALSE]
  /\ modelAttached = TRUE
  /\ modelVisible = TRUE
  /\ bvhIdle = "playing"
  /\ otherAct = "off"
  /\ seqAct = [c \in BvhCalls |-> [i \in Clips |-> "none"]]
  /\ currentActionIndex = [c \in BvhCalls |-> 0]
  /\ seqListener = [c \in BvhCalls |-> FALSE]
  /\ idleRestarts = [c \in BvhCalls |-> 0]

\* Promise.all(promises).then(...): the model, the mixer and the actions are created
AssetsLoaded ==
  /\ ~loaded
  /\ loaded' = TRUE
  /\ act' = [act EXCEPT !["idle"] = "playing",
                        !["intro"] = IF introAnimationUrl THEN "playing" ELSE "off"]
  /\ typingListener' = TRUE
  /\ UNCHANGED <<introAnimationUrl, loopActions, loadVars, retargetVars, faceVars,
                 blendVars, dynTypingVars, bvhVars, speechVars, locoVars,
                 gestureVars,
                 animationState, currentLoopAction, currentLoopIndex,
                 currentlyPlayingTalkingAction, typingActive, typingQuat,
                 typingHoldTimer, holdSurvivedSpeech, skeletonPose, modelRoot, headQuat>>

\* ------------------------------------------------------------ layer helpers
\* prev?.isRunning() -> prev.fadeOut(..)
FadeOutIfRunning(actions, a) ==
  IF a # "none" /\ IsRunning(actions[a]) THEN [actions EXCEPT ![a] = "fadingOut"]
  ELSE actions

\* "resume loop or idle": advance the playlist when it is non-empty, else restart idle
\* (releaseTypingPose timer body, setTyping(false), the speak handle, animate)
ResumeLoopOrIdle ==
  IF Len(loopActions) > 0
  THEN LET idx == (currentLoopIndex + 1) % Len(loopActions)
           next == loopActions[idx + 1]
       IN [act |-> [FadeOutIfRunning(act, currentLoopAction) EXCEPT ![next] = "playing"],
           index |-> idx, loopAction |-> next]
  ELSE [act |-> [act EXCEPT !["idle"] = IF loaded THEN "playing" ELSE @],
        index |-> currentLoopIndex, loopAction |-> currentLoopAction]

\* ------------------------------------------------------------------ speech
Settled(u) == speakPc[u] \in {"resolved", "failed", "dropped"}

\* A call's arguments (visemes, emotion) live in its closure and are not
\* observable before the code uses them, so each is drawn at its first use:
\* the emotion when the inner function starts, the cue list when it is installed.

\* a head that stops the previous source and sets the emotion, but leaves the
\* cursor and the targets of the previous utterance
BeginSpeechKeepingCursor(u, emotion) ==
  IF ~loaded
  THEN /\ speakPc' = [speakPc EXCEPT ![u] = "dropped"]
       /\ UNCHANGED <<src, onended, audioSourceRef, isWaitingAfterTalk, currentVisemeIndex,
                      targetVisemeWeights, targetJawOpen, currentSpeechEmotion, latest,
                      staleCues>>
  ELSE /\ speakPc' = [speakPc EXCEPT ![u] = "fetching"]
       /\ IF audioSourceRef # 0
          THEN /\ onended' = [onended EXCEPT ![audioSourceRef] = FALSE]
               /\ src' = [src EXCEPT ![audioSourceRef] =
                            IF @ = "started" THEN "stopped" ELSE @]
          ELSE UNCHANGED <<onended, src>>
       /\ audioSourceRef' = 0
       /\ isWaitingAfterTalk' = FALSE
       /\ currentSpeechEmotion' = emotion
       /\ latest' = u
       /\ staleCues' = (visemes # <<>>)
       /\ UNCHANGED <<currentVisemeIndex, targetVisemeWeights, targetJawOpen>>

\* the synchronous head of the inner playAudioWithEmotionAndLipSync:
\* readiness check, stop of the previous source, reset of cursor and targets
BeginSpeech(u, emotion) ==
  IF ~loaded
  THEN /\ speakPc' = [speakPc EXCEPT ![u] = "dropped"]
       /\ UNCHANGED <<src, onended, audioSourceRef, isWaitingAfterTalk, currentVisemeIndex,
                      targetVisemeWeights, targetJawOpen, currentSpeechEmotion, latest,
                      staleCues>>
  ELSE /\ speakPc' = [speakPc EXCEPT ![u] = "fetching"]
       /\ IF audioSourceRef # 0
          THEN /\ onended' = [onended EXCEPT ![audioSourceRef] = FALSE]
               /\ src' = [src EXCEPT ![audioSourceRef] =
                            IF @ = "started" THEN "stopped" ELSE @]
          ELSE UNCHANGED <<onended, src>>
       /\ audioSourceRef' = 0
       /\ isWaitingAfterTalk' = FALSE
       /\ currentVisemeIndex' = 0
       /\ targetVisemeWeights' = ZeroVisemes
       /\ targetJawOpen' = 0
       /\ currentSpeechEmotion' = emotion
       /\ latest' = u
       /\ staleCues' = (visemes # <<>>)

\* the typing overlay is cleared by the imperative handle before speech
ClearTypingForSpeech ==
  IF typingActive
  THEN /\ typingActive' = FALSE
       /\ act' = ResumeLoopOrIdle.act
       /\ currentLoopIndex' = ResumeLoopOrIdle.index
       /\ currentLoopAction' = ResumeLoopOrIdle.loopAction
       /\ holdSurvivedSpeech' = (typingHoldTimer # NoTimer)
  ELSE UNCHANGED <<typingActive, act, currentLoopIndex, currentLoopAction,
                   holdSurvivedSpeech>>

\* the imperative handle playAudioWithEmotionAndLipSync called with a URL:
\* the typing overlay is cleared and the inner function runs at once
Speak(u, emotion) ==
  /\ speakPc[u] = "unissued"
  /\ \A v \in Utter : v < u => speakPc[v] # "unissued"
  /\ ClearTypingForSpeech
  /\ BeginSpeech(u, emotion)
  /\ issuedInCoolDown' = [issuedInCoolDown EXCEPT ![u] = {a \in Utter : coolTimer[a] # NoTimer}]
  /\ UNCHANGED <<cfgVars, loadVars, retargetVars, faceVars, blendVars, dynTypingVars, bvhVars,
                 locoVars, srcRemaining, coolTimer, visemes, audioStartSet,
                 audioAge, visemesOwner, animationState, currentlyPlayingTalkingAction,
                 typingQuat, typingHoldTimer, skeletonPose, modelRoot, typingListener,
                 headQuat, gestureVars>>

\* the imperative handle called with a data: URI: the typing overlay is cleared,
\* then the handle awaits the blob before it enters the inner function
SpeakBase64(u) ==
  /\ speakPc[u] = "unissued"
  /\ \A v \in Utter : v < u => speakPc[v] # "unissued"
  /\ ClearTypingForSpeech
  /\ speakPc' = [speakPc EXCEPT ![u] = "blob"]
  /\ issuedInCoolDown' = [issuedInCoolDown EXCEPT ![u] = {a \in Utter : coolTimer[a] # NoTimer}]
  /\ UNCHANGED <<cfgVars, loadVars, retargetVars, faceVars, blendVars, dynTypingVars, bvhVars,
                 locoVars, src, onended, audioSourceRef, isWaitingAfterTalk,
                 currentVisemeIndex, targetVisemeWeights, targetJawOpen,
                 currentSpeechEmotion, latest, srcRemaining, coolTimer, visemes,
                 audioStartSet, audioAge, visemesOwner, staleCues, animationState,
                 currentlyPlayingTalkingAction, typingQuat, typingHoldTimer,
                 skeletonPose, modelRoot, typingListener, headQuat, gestureVars>>

\* the blob of a data: URI is ready: the inner function starts
BlobReady(u, emotion) ==
  /\ speakPc[u] = "blob"
  /\ BeginSpeech(u, emotion)
  /\ UNCHANGED <<cfgVars, loadVars, retargetVars, faceVars, blendVars, dynTypingVars, bvhVars,
                 locoVars, layerVars, gestureVars, srcRemaining, coolTimer,
                 visemes, audioStartSet, audioAge, visemesOwner, issuedInCoolDown>>

\* fetch + decodeAudioData succeeded: create, wire and schedule the source,
\* install the cue list and the audio start time
FetchDone(u, cues, dur) ==
  /\ speakPc[u] = "fetching"
  /\ speakPc' = [speakPc EXCEPT ![u] = "started"]
  /\ src' = [src EXCEPT ![u] = "started"]
  /\ srcRemaining' = [srcRemaining EXCEPT ![u] = StartDelay + dur]
  /\ audioSourceRef' = u
  /\ onended' = [onended EXCEPT ![u] = TRUE]
  /\ visemes' = cues
  /\ visemesOwner' = u
  /\ staleCues' = FALSE
  /\ audioStartSet' = TRUE
  /\ audioAge' = 0 - StartDelay
  /\ UNCHANGED <<cfgVars, loadVars, retargetVars, faceVars, blendVars, dynTypingVars, bvhVars,
                 locoVars, layerVars, gestureVars, coolTimer, isWaitingAfterTalk,
                 currentVisemeIndex, targetVisemeWeights, targetJawOpen,
                 currentSpeechEmotion, latest, issuedInCoolDown>>

\* fetch or decode threw: the catch block resolves the promise and does nothing else
FetchFail(u) ==
  /\ speakPc[u] = "fetching"
  /\ speakPc' = [speakPc EXCEPT ![u] = "failed"]
  /\ UNCHANGED <<cfgVars, loadVars, retargetVars, faceVars, blendVars, dynTypingVars, bvhVars,
                 locoVars, layerVars, gestureVars, src, onended, srcRemaining,
                 coolTimer, audioSourceRef, visemes, audioStartSet, audioAge,
                 isWaitingAfterTalk, currentVisemeIndex, targetVisemeWeights,
                 targetJawOpen, currentSpeechEmotion, latest, visemesOwner, staleCues,
                 issuedInCoolDown>>

\* source.onended: the buffer has played out; the cool-down timer is started
SourceEnded(u) ==
  /\ src[u] = "started"
  /\ srcRemaining[u] = 0
  /\ src' = [src EXCEPT ![u] = "ended"]
  /\ IF onended[u]
     THEN /\ isWaitingAfterTalk' = TRUE
          /\ onended' = [onended EXCEPT ![u] = FALSE]
          /\ coolTimer' = [coolTimer EXCEPT ![u] = CoolDown]
     ELSE UNCHANGED <<isWaitingAfterTalk, onended, coolTimer>>
  /\ UNCHANGED <<cfgVars, loadVars, retargetVars, faceVars, blendVars, dynTypingVars, bvhVars,
                 locoVars, layerVars, gestureVars, speakPc, srcRemaining,
                 audioSourceRef, visemes, audioStartSet, audioAge, currentVisemeIndex,
                 targetVisemeWeights, targetJawOpen, currentSpeechEmotion, latest,
                 visemesOwner, staleCues, issuedInCoolDown>>

\* the setTimeout callback of onended: empty the cue list, end the cool-down,
\* reset the emotion, resolve the promise
CoolDownFire(u) ==
  /\ coolTimer[u] = 0
  /\ coolTimer' = [coolTimer EXCEPT ![u] = NoTimer]
  /\ visemes' = <<>>
  /\ visemesOwner' = 0
  /\ staleCues' = FALSE
  /\ isWaitingAfterTalk' = FALSE
  /\ currentSpeechEmotion' = "neutral"
  /\ speakPc' = [speakPc EXCEPT ![u] = "resolved"]
  /\ UNCHANGED <<cfgVars, loadVars, retargetVars, faceVars, blendVars, dynTypingVars, bvhVars,
                 locoVars, layerVars, gestureVars, src, onended,
                 srcRemaining, audioSourceRef, audioStartSet, audioAge,
                 currentVisemeIndex, targetVisemeWeights, targetJawOpen, latest,
                 issuedInCoolDown>>

\* ------------------------------------------------------------- render tick
\* loopEnabledRef: set to false when the playlist is built and never set again
LoopEnabled == FALSE

OneShots == {"intro", "interrupt", "ambient", "typing"}

\* a cursor that wraps to the start of the list once it has passed the last cue
AdvanceCursorWrapping(cues, idx, t) ==
  LET n == Cardinality({i \in (idx + 1)..Len(cues) : cues[i].time <= t})
  IN IF Len(cues) > 0 THEN (idx + n) % Len(cues) ELSE idx

\* the cursor loop of animate: advance while the cue at the cursor has begun
RECURSIVE AdvanceCursor(_, _, _)
AdvanceCursor(cues, idx, t) ==
  IF idx < Len(cues) /\ t >= cues[idx + 1].time
  THEN AdvanceCursor(cues, idx + 1, t)
  ELSE idx

\* audioElapsedTime as animate computes it
AudioElapsedTime == IF audioStartSet THEN audioAge ELSE 0

\* mixer.update(delta): weight fades that reach zero disable their action
AfterFades(actions, fadeDone) ==
  [a \in DOMAIN actions |->
     IF fadeDone /\ actions[a] = "fadingOut" THEN "off" ELSE actions[a]]

\* mixer.update(delta): a LoopOnce action with clampWhenFinished reaches its end
AfterFinish(actions, fin) ==
  [a \in DOMAIN actions |-> IF a = fin THEN "clamped" ELSE actions[a]]

\* a tick that writes the typing freeze before the additive procedural motion
HeadFreezeBeforeProcedural(mixed, procedural, frozen) ==
  IF procedural THEN "anim"
  ELSE IF frozen # "none" THEN frozen
  ELSE mixed

\* the three writers of the head and neck rotation in animate, in the order of
\* the code: bindings of the mixer, additive procedural motion, typing freeze
HeadAfterTick(mixed, procedural, frozen) ==
  IF frozen # "none" THEN frozen
  ELSE IF procedural THEN "anim"
  ELSE mixed

\* a first branch that does not look at the post-talk cool-down
ToTalkingIgnoringCoolDown(talking, state, waiting) == talking /\ state # "talking"

\* the condition of the state machine's first branch
ToTalking(talking, state, waiting) == talking /\ state # "talking" /\ ~waiting

\* animate without its blink, gaze and morph target blocks, in the order of the
\* code: mixer update with its finished listeners, camera follow, procedural
\* motion, typing freeze, the animation state machine, the lip-sync update
TickLayers(finBase, finLoco, finGest, fadeDone) ==
  /\ loaded
  \* at most one action reaches its end in one frame
  /\ (IF finBase = "none" THEN 0 ELSE 1) + (IF finLoco = 0 THEN 0 ELSE 1)
       + (IF finGest = 0 THEN 0 ELSE 1) <= 1
  /\ finBase # "none" => act[finBase] = "playing"
  /\ finLoco # 0 => locoAct[finLoco] = "playing"
  /\ finGest # 0 => gAct[finGest] = "playing"
  /\ LET isCurrentlyTalking == Len(visemes) > 0
         act1 == AfterFinish(AfterFades(act, fadeDone), finBase)
         locoAct1 == AfterFinish(AfterFades(locoAct, fadeDone), finLoco)
         gAct1 == AfterFinish(AfterFades(gAct, fadeDone), finGest)
         \* the mixer's finished listener of the asset load: playNextLoopAction
         playNext == /\ finBase = "intro" /\ LoopEnabled /\ Len(loopActions) > 0
                     /\ animationState # "talking"
         introIndex == (currentLoopIndex + 1) % Len(loopActions)
         state1 == IF playNext THEN "idle" ELSE animationState
         index1 == IF playNext THEN introIndex ELSE currentLoopIndex
         loop1 == IF playNext THEN loopActions[introIndex + 1] ELSE currentLoopAction
         actIntro == IF playNext
                     THEN [FadeOutIfRunning(act1, currentLoopAction)
                             EXCEPT ![loopActions[introIndex + 1]] = "playing"]
                     ELSE act1
         \* onTypingFinished: capture the head and neck pose, start the hold delay
         typed == finBase = "typing" /\ typingListener
         typingQuat1 == IF typed THEN "held" ELSE typingQuat
         \* playAnimation.onFinished for the action that finished
         heard == finLoco # 0 /\ locoListener[finLoco]
         following1 == IF heard THEN FALSE ELSE isFollowing
         \* playGestures.onFinished: fade the gesture out, restore the captured action
         gestured == finGest # 0
         act2 == IF gestured THEN [actIntro EXCEPT ![gPrev[finGest]] = "playing"]
                 ELSE actIntro
         gAct2 == IF gestured THEN [gAct1 EXCEPT ![finGest] = "fadingOut"] ELSE gAct1
         \* the pose the mixer's bindings write
         weighted == \/ \E a \in BaseActions : HasWeight(act2[a])
                     \/ \E r \in LocoIds : HasWeight(locoAct1[r])
                     \/ \E c \in GestureCalls : HasWeight(gAct2[c])
         mixed == IF weighted THEN "anim" ELSE headQuat
         \* interrupt head motion and idle micro-motion
         procedural ==
           \/ /\ loop1 = "interrupt" /\ IsRunning(act2["interrupt"])
              /\ ~isCurrentlyTalking
           \/ /\ state1 = "idle" /\ ~isCurrentlyTalking /\ ~following1
              /\ ~typingActive
         toTalking == ToTalking(isCurrentlyTalking, state1, isWaitingAfterTalk)
         toIdle == ~toTalking /\ state1 = "talking" /\ isWaitingAfterTalk
         \* transition to talking: fade out what is playing, fade in the talking loop
         actTalk ==
           LET faded ==
                 IF loop1 # "none" /\ IsRunning(act2[loop1])
                 THEN [act2 EXCEPT ![loop1] = "fadingOut"]
                 ELSE IF state1 = "interrupt" /\ IsRunning(act2["interrupt"])
                 THEN [act2 EXCEPT !["interrupt"] = "fadingOut"]
                 ELSE IF state1 = "idle" /\ IsRunning(act2["idle"])
                 THEN [act2 EXCEPT !["idle"] = "fadingOut"]
                 ELSE act2
           IN [faded EXCEPT !["talking"] = "playing"]
         \* transition back: fade out the talking loop, resume playlist or idle
         actQuiet ==
           IF currentlyPlayingTalkingAction # "none"
              /\ IsRunning(act2[currentlyPlayingTalkingAction])
           THEN [act2 EXCEPT ![currentlyPlayingTalkingAction] = "fadingOut"]
           ELSE act2
         usePlaylist == ~typingActive /\ LoopEnabled /\ Len(loopActions) > 0
         nextIndex == (index1 + 1) % Len(loopActions)
         actIdle ==
           IF typingActive THEN actQuiet
           ELSE IF usePlaylist
           THEN [FadeOutIfRunning(actQuiet, loop1)
                   EXCEPT ![loopActions[nextIndex + 1]] = "playing"]
           ELSE [actQuiet EXCEPT !["idle"] = "playing"]
         \* lip sync
         newIndex == AdvanceCursor(visemes, currentVisemeIndex, AudioElapsedTime)
         nextViseme == IF isCurrentlyTalking /\ newIndex > currentVisemeIndex
                       THEN visemes[newIndex] ELSE [time |-> 0, value |-> "none", jaw |-> 0]
     IN /\ locoListener' = IF heard THEN [locoListener EXCEPT ![finLoco] = FALSE]
                           ELSE locoListener
        /\ locoPc' = IF heard THEN [locoPc EXCEPT ![finLoco] = "fadeOut"] ELSE locoPc
        /\ isFollowing' = following1
        /\ locoAct' = locoAct1
        /\ typingListener' = IF typed THEN FALSE ELSE typingListener
        /\ typingQuat' = typingQuat1
        /\ typingHoldTimer' = IF typed THEN HoldDelay ELSE typingHoldTimer
        /\ holdSurvivedSpeech' = IF typed THEN FALSE ELSE holdSurvivedSpeech
        /\ gAct' = gAct2
        /\ gLeft' = IF gestured THEN [gLeft EXCEPT ![finGest] = @ - 1] ELSE gLeft
        /\ gPc' = IF gestured
                  THEN [gPc EXCEPT ![finGest] = IF gLeft[finGest] > 1 THEN "loading"
                                                ELSE "done"]
                  ELSE gPc
        /\ skeletonPose' = IF weighted THEN "animated" ELSE skeletonPose
        /\ headQuat' = HeadAfterTick(mixed, procedural,
                                     IF typingActive THEN typingQuat1 ELSE "none")
        /\ cameraPos' = IF following1 THEN "follow" ELSE cameraPos
        /\ animationState' = IF toTalking THEN "talking"
                             ELSE IF toIdle THEN "idle" ELSE state1
        /\ act' = IF toTalking THEN actTalk ELSE IF toIdle THEN actIdle ELSE act2
        /\ currentlyPlayingTalkingAction' =
             IF toTalking THEN "talking"
             ELSE IF toIdle THEN "none" ELSE currentlyPlayingTalkingAction
        /\ currentLoopIndex' = IF toIdle /\ usePlaylist THEN nextIndex ELSE index1
        /\ currentLoopAction' = IF toIdle /\ usePlaylist THEN loopActions[nextIndex + 1]
                                ELSE loop1
        /\ currentVisemeIndex' = IF isCurrentlyTalking THEN newIndex ELSE currentVisemeIndex
        /\ IF nextViseme.value # "none"
           THEN /\ targetVisemeWeights' =
                     [k \in VisemeKeys |-> IF k = nextViseme.value THEN 1 ELSE 0]
                /\ targetJawOpen' = nextViseme.jaw
           ELSE UNCHANGED <<targetVisemeWeights, targetJawOpen>>
  /\ UNCHANGED <<cfgVars, loadVars, retargetVars, blendVars, dynTypingVars, bvhVars,
                 speakPc, src, onended,
                 srcRemaining,
                 coolTimer, audioSourceRef, visemes, audioStartSet, audioAge,
                 isWaitingAfterTalk, currentSpeechEmotion, latest, visemesOwner,
                 staleCues, issuedInCoolDown, typingActive, modelRoot, gPrev,
                 rootAtRequest, controlsEnabled, cameraStartPos, prevControlsState>>

\* the blink and gaze blocks of animate.  The two timers run on random
\* intervals: blinkDue says that the pending blink timer (the wait, or the
\* blink itself) runs out in this frame, saccade that the gaze timer does and
\* which direction is drawn
FaceUpdate(blinkDue, saccade) ==
  /\ isBlinking' = IF blinkDue THEN ~isBlinking ELSE isBlinking
  /\ eyeBlink' = IF blinkDue THEN (IF isBlinking THEN 0 ELSE 1) ELSE eyeBlink
  /\ isLooking' = IF saccade # "none" THEN ~isLooking ELSE isLooking
  /\ lookTarget' = IF saccade = "none" THEN lookTarget
                   ELSE IF isLooking THEN "zero" ELSE saccade

\* one requestAnimationFrame callback (animate)
Animate(finBase, finLoco, finGest, fadeDone, blinkDue, saccade) ==
  /\ TickLayers(finBase, finLoco, finGest, fadeDone)
  /\ FaceUpdate(blinkDue, saccade)

\* a frame in which neither face timer runs out
Tick(finBase, finLoco, finGest, fadeDone) ==
  /\ TickLayers(finBase, finLoco, finGest, fadeDone)
  /\ UNCHANGED faceVars

\* one quantum passes on the audio clock and on the timers; an event that is
\* due is delivered first
AdvanceTime ==
  /\ \A u \in Utter : ~(src[u] = "started" /\ srcRemaining[u] = 0) /\ coolTimer[u] # 0
  /\ typingHoldTimer # 0
  /\ srcRemaining' = [u \in Utter |->
                        IF src[u] = "started" THEN srcRemaining[u] - 1 ELSE srcRemaining[u]]
  /\ coolTimer' = [u \in Utter |-> IF coolTimer[u] > 0 THEN coolTimer[u] - 1 ELSE coolTimer[u]]
  /\ typingHoldTimer' = IF typingHoldTimer > 0 THEN typingHoldTimer - 1 ELSE typingHoldTimer
  /\ audioAge' = IF audioStartSet /\ audioAge < MaxAge THEN audioAge + 1 ELSE audioAge
  /\ UNCHANGED <<cfgVars, loadVars, retargetVars, faceVars, blendVars, dynTypingVars, bvhVars,
                 locoVars, gestureVars, speakPc, src, onended,
                 audioSourceRef, visemes, audioStartSet, isWaitingAfterTalk,
                 currentVisemeIndex, targetVisemeWeights, targetJawOpen,
                 currentSpeechEmotion, latest, visemesOwner, staleCues, issuedInCoolDown,
                 animationState, act, currentLoopAction, currentLoopIndex,
                 currentlyPlayingTalkingAction, typingActive, typingQuat,
                 skeletonPose, modelRoot, typingListener, headQuat, holdSurvivedSpeech>>

\* -------------------------------------------------------------- locomotion
AllOff == [a \in BaseActions |-> "off"]

\* mixer.stopAllAction() on the locomotion actions the mixer knows
LocoStopped(actions) ==
  [r \in LocoIds |-> IF actions[r] = "none" THEN "none" ELSE "off"]

\* mixer.stopAllAction() on the gesture actions the mixer knows
GestureStopped(actions) ==
  [c \in GestureCalls |-> IF actions[c] = "none" THEN "none" ELSE "off"]

\* playAnimation(url): no-op promise when the engine is not ready, else start the BVH load
PlayAnimation(r) ==
  /\ locoPc[r] = "unissued"
  /\ \A q \in LocoIds : q < r => locoPc[q] # "unissued"
  /\ locoPc' = [locoPc EXCEPT ![r] = IF loaded THEN "loading" ELSE "resolved"]
  /\ rootAtRequest' = [rootAtRequest EXCEPT ![r] = modelRoot]
  /\ UNCHANGED <<cfgVars, loadVars, retargetVars, faceVars, blendVars, dynTypingVars, bvhVars,
                 speechVars, layerVars, gestureVars, locoAct, locoListener, isFollowing,
                 cameraPos, controlsEnabled, cameraStartPos, prevControlsState>>

\* the loader's error callback: the clip is unreachable
LocoLoadError(r) ==
  /\ locoPc[r] = "loading"
  /\ locoPc' = [locoPc EXCEPT ![r] = "rejected"]
  /\ UNCHANGED <<cfgVars, loadVars, retargetVars, faceVars, blendVars, dynTypingVars, bvhVars,
                 speechVars, layerVars, gestureVars, locoAct, locoListener, rootAtRequest,
                 isFollowing, cameraPos, controlsEnabled, cameraStartPos,
                 prevControlsState>>

\* the loader's success callback.  outcome "noclip": the file has no animation
\* data; "throws": retargeting or binding throws after the clean reset;
\* "ok": the action is created, camera follow is set up, the clip is faded in
LocoLoaded(r, outcome) ==
  /\ locoPc[r] = "loading"
  /\ IF outcome = "noclip"
     THEN /\ locoPc' = [locoPc EXCEPT ![r] = "rejected"]
          /\ UNCHANGED <<layerVars, locoAct, locoListener, isFollowing, cameraPos,
                         controlsEnabled, cameraStartPos, prevControlsState, gAct>>
     ELSE \* clean reset: typing released, every action stopped, bind pose, root reset
          /\ typingHoldTimer' = NoTimer
          /\ holdSurvivedSpeech' = FALSE
          /\ typingActive' = FALSE
          /\ typingQuat' = "none"
          /\ skeletonPose' = "bind"
          /\ headQuat' = "bind"
          /\ modelRoot' = "start"
          /\ gAct' = GestureStopped(gAct)
          /\ UNCHANGED <<animationState, currentLoopAction, currentLoopIndex,
                         currentlyPlayingTalkingAction, typingListener>>
          /\ IF outcome = "throws"
             THEN /\ locoPc' = [locoPc EXCEPT ![r] = "rejected"]
                  /\ act' = AllOff
                  /\ locoAct' = LocoStopped(locoAct)
                  /\ UNCHANGED <<locoListener, isFollowing, cameraPos, controlsEnabled,
                                 cameraStartPos, prevControlsState>>
             ELSE /\ locoPc' = [locoPc EXCEPT ![r] = "playing"]
                  \* idleAction.fadeOut on the stopped idle action leaves it not running
                  /\ act' = AllOff
                  /\ locoAct' = [LocoStopped(locoAct) EXCEPT ![r] = "playing"]
                  /\ cameraStartPos' = cameraPos
                  /\ prevControlsState' = IF controlsEnabled THEN "enabled" ELSE "disabled"
                  /\ controlsEnabled' = FALSE
                  /\ isFollowing' = TRUE
                  /\ locoListener' = [locoListener EXCEPT ![r] = TRUE]
                  /\ UNCHANGED cameraPos
  /\ UNCHANGED <<cfgVars, loadVars, retargetVars, faceVars, blendVars, dynTypingVars, bvhVars,
                 speechVars, rootAtRequest, gPc, gLeft, gPrev>>

\* a restore that forgets skeleton.pose(): the last frame of the clip stays
LocoRestoreWithoutPose(r) ==
  /\ locoPc[r] = "fadeOut"
  /\ locoPc' = [locoPc EXCEPT ![r] = "fadeIn"]
  /\ cameraPos' = cameraStartPos
  /\ controlsEnabled' = (prevControlsState # "disabled")
  /\ act' = [AllOff EXCEPT !["idle"] = "playing"]
  /\ locoAct' = LocoStopped(locoAct)
  /\ modelRoot' = "start"
  /\ gAct' = GestureStopped(gAct)
  /\ UNCHANGED <<cfgVars, loadVars, retargetVars, faceVars, blendVars, dynTypingVars, bvhVars,
                 speechVars, animationState, currentLoopAction, currentLoopIndex,
                 currentlyPlayingTalkingAction, typingActive, typingQuat, typingHoldTimer,
                 holdSurvivedSpeech,
                 locoListener, rootAtRequest, isFollowing, cameraStartPos,
                 prevControlsState, skeletonPose, typingListener, headQuat, gPc, gLeft,
                 gPrev>>

\* onFinished after the opacity fade-out: camera and controls restored, every
\* action stopped, bind pose, model root reset, idle restarted
LocoRestore(r) ==
  /\ locoPc[r] = "fadeOut"
  /\ locoPc' = [locoPc EXCEPT ![r] = "fadeIn"]
  /\ cameraPos' = cameraStartPos
  /\ controlsEnabled' = (prevControlsState # "disabled")
  /\ act' = [AllOff EXCEPT !["idle"] = "playing"]
  /\ locoAct' = LocoStopped(locoAct)
  /\ skeletonPose' = "bind"
  /\ headQuat' = "bind"
  /\ modelRoot' = "start"
  /\ gAct' = GestureStopped(gAct)
  /\ UNCHANGED <<cfgVars, loadVars, retargetVars, faceVars, blendVars, dynTypingVars, bvhVars,
                 speechVars, animationState, currentLoopAction, currentLoopIndex,
                 currentlyPlayingTalkingAction, typingActive, typingQuat, typingHoldTimer,
                 holdSurvivedSpeech,
                 locoListener, rootAtRequest, isFollowing, cameraStartPos,
                 prevControlsState, typingListener, gPc, gLeft, gPrev>>

\* onFinished after the opacity fade-in: the promise of playAnimation resolves
LocoResolve(r) ==
  /\ locoPc[r] = "fadeIn"
  /\ locoPc' = [locoPc EXCEPT ![r] = "resolved"]
  /\ UNCHANGED <<cfgVars, loadVars, retargetVars, faceVars, blendVars, dynTypingVars, bvhVars,
                 speechVars, layerVars, gestureVars, locoAct, locoListener, rootAtRequest,
                 isFollowing, cameraPos, controlsEnabled, cameraStartPos,
                 prevControlsState>>

\* resetToIdle(): stop every action, bind pose, root reset, typing cleared, idle restarted
ResetToIdle ==
  /\ act' = IF loaded THEN [AllOff EXCEPT !["idle"] = "playing"] ELSE act
  /\ locoAct' = LocoStopped(locoAct)
  /\ gAct' = GestureStopped(gAct)
  /\ skeletonPose' = "bind"
  /\ headQuat' = "bind"
  /\ modelRoot' = "start"
  /\ typingActive' = FALSE
  /\ typingHoldTimer' = NoTimer
  /\ holdSurvivedSpeech' = FALSE
  /\ typingQuat' = "none"
  /\ currentLoopAction' = "none"
  /\ currentlyPlayingTalkingAction' = "none"
  /\ animationState' = "idle"
  /\ UNCHANGED <<cfgVars, loadVars, retargetVars, faceVars, blendVars, dynTypingVars, bvhVars,
                 speechVars, currentLoopIndex, locoPc, locoListener,
                 rootAtRequest, isFollowing, cameraPos, controlsEnabled, cameraStartPos,
                 prevControlsState, typingListener, gPc, gLeft, gPrev>>

\* ------------------------------------------------------------------ typing
\* The typing clip is configured, so the typing action exists once the assets
\* are loaded.

\* setTyping(isTyping)
SetTyping(isTyping) ==
  /\ IF ~loaded
     THEN /\ typingActive' = FALSE
          /\ UNCHANGED <<act, typingHoldTimer, holdSurvivedSpeech, typingQuat, currentLoopIndex,
                         currentLoopAction>>
     ELSE IF isTyping
     THEN IF typingActive
          THEN UNCHANGED <<typingActive, act, typingHoldTimer, holdSurvivedSpeech, typingQuat,
                           currentLoopIndex, currentLoopAction>>
          ELSE /\ typingActive' = TRUE
               /\ act' = LET faded ==
                               IF currentLoopAction # "none"
                                  /\ IsRunning(act[currentLoopAction])
                               THEN [act EXCEPT ![currentLoopAction] = "fadingOut"]
                               ELSE IF IsRunning(act["idle"])
                               THEN [act EXCEPT !["idle"] = "fadingOut"]
                               ELSE act
                         IN [faded EXCEPT !["typing"] = "playing"]
               /\ UNCHANGED <<typingHoldTimer, holdSurvivedSpeech, typingQuat, currentLoopIndex,
                              currentLoopAction>>
     ELSE IF ~typingActive
          THEN UNCHANGED <<typingActive, act, typingHoldTimer, holdSurvivedSpeech, typingQuat,
                           currentLoopIndex, currentLoopAction>>
          ELSE /\ typingActive' = FALSE
               /\ typingHoldTimer' = NoTimer
               /\ holdSurvivedSpeech' = FALSE
               /\ typingQuat' = "none"
               /\ act' = ResumeLoopOrIdle.act
               /\ currentLoopIndex' = ResumeLoopOrIdle.index
               /\ currentLoopAction' = ResumeLoopOrIdle.loopAction
  /\ UNCHANGED <<cfgVars, loadVars, retargetVars, faceVars, blendVars, dynTypingVars, bvhVars,
                 speechVars, locoVars, gestureVars, animationState,
                 currentlyPlayingTalkingAction, skeletonPose, modelRoot,
                 typingListener, headQuat>>

\* the timer of releaseTypingPose: typing ends, playlist or idle resumes, the
\* frozen rotations are cleared
TypingHoldFire ==
  /\ typingHoldTimer = 0
  /\ typingHoldTimer' = NoTimer
  /\ holdSurvivedSpeech' = FALSE
  /\ typingActive' = FALSE
  /\ act' = ResumeLoopOrIdle.act
  /\ currentLoopIndex' = ResumeLoopOrIdle.index
  /\ currentLoopAction' = ResumeLoopOrIdle.loopAction
  /\ typingQuat' = "none"
  /\ UNCHANGED <<cfgVars, loadVars, retargetVars, faceVars, blendVars, dynTypingVars, bvhVars,
                 speechVars, locoVars, gestureVars, animationState,
                 currentlyPlayingTalkingAction, skeletonPose, modelRoot,
                 typingListener, headQuat>>

\* ---------------------------------------------------------------- gestures
\* a playGestures that, like resetToIdle, also records the state Idle
PlayGesturesResettingState(c, n) ==
  /\ gPc[c] = "unissued"
  /\ \A d \in GestureCalls : d < c => gPc[d] # "unissued"
  /\ gPc' = [gPc EXCEPT ![c] = "waiting"]
  /\ gLeft' = [gLeft EXCEPT ![c] = n]
  /\ typingHoldTimer' = NoTimer
  /\ holdSurvivedSpeech' = FALSE
  /\ typingActive' = FALSE
  /\ typingQuat' = "none"
  /\ headQuat' = IF loaded THEN "bind" ELSE headQuat
  /\ modelRoot' = IF loaded THEN "start" ELSE modelRoot
  /\ animationState' = "idle"
  /\ UNCHANGED <<cfgVars, loadVars, retargetVars, faceVars, blendVars, dynTypingVars, bvhVars,
                 speechVars, locoVars, gAct, gPrev, act,
                 currentLoopAction, currentLoopIndex, currentlyPlayingTalkingAction,
                 skeletonPose, typingListener>>

\* playGestures(urls) up to its first await: typing released, head and model
\* root restored once the base pose has been captured
PlayGestures(c, n) ==
  /\ gPc[c] = "unissued"
  /\ \A d \in GestureCalls : d < c => gPc[d] # "unissued"
  /\ gPc' = [gPc EXCEPT ![c] = "waiting"]
  /\ gLeft' = [gLeft EXCEPT ![c] = n]
  /\ typingHoldTimer' = NoTimer
  /\ holdSurvivedSpeech' = FALSE
  /\ typingActive' = FALSE
  /\ typingQuat' = "none"
  /\ headQuat' = IF loaded THEN "bind" ELSE headQuat
  /\ modelRoot' = IF loaded THEN "start" ELSE modelRoot
  /\ UNCHANGED <<cfgVars, loadVars, retargetVars, faceVars, blendVars, dynTypingVars, bvhVars,
                 speechVars, locoVars, gAct, gPrev, animationState, act,
                 currentLoopAction, currentLoopIndex, currentlyPlayingTalkingAction,
                 skeletonPose, typingListener>>

\* waitForReady returns true: the loop over the list starts
GestureReady(c) ==
  /\ gPc[c] = "waiting"
  /\ loaded
  /\ gPc' = [gPc EXCEPT ![c] = "loading"]
  /\ UNCHANGED <<cfgVars, loadVars, retargetVars, faceVars, blendVars, dynTypingVars, bvhVars,
                 speechVars, layerVars, locoVars, gLeft, gAct, gPrev>>

\* a time-out of waitForReady whose result is not looked at: the loop starts
GestureAbortContinuing(c) ==
  /\ gPc[c] = "waiting"
  /\ ~loaded
  /\ gPc' = [gPc EXCEPT ![c] = "loading"]
  /\ UNCHANGED <<cfgVars, loadVars, retargetVars, faceVars, blendVars, dynTypingVars, bvhVars,
                 speechVars, layerVars, locoVars, gLeft, gAct, gPrev>>

\* waitForReady ran out of time: the call returns without playing anything
GestureAbort(c) ==
  /\ gPc[c] = "waiting"
  /\ ~loaded
  /\ gPc' = [gPc EXCEPT ![c] = "done"]
  /\ UNCHANGED <<cfgVars, loadVars, retargetVars, faceVars, blendVars, dynTypingVars, bvhVars,
                 speechVars, layerVars, locoVars, gLeft, gAct, gPrev>>

\* fbxLoader.loadAsync settled for the clip at the head of the list.  ok: the
\* base action is faded out, the gesture action is played and its finished
\* listener attached; otherwise the loop continues with the next clip
GestureLoaded(c, ok) ==
  /\ gPc[c] = "loading"
  /\ IF ok
     THEN LET prevTalking == currentlyPlayingTalkingAction
              prevLoop == currentLoopAction
          IN /\ act' = IF prevTalking # "none" /\ IsRunning(act[prevTalking])
                       THEN [act EXCEPT ![prevTalking] = "fadingOut"]
                       ELSE IF prevLoop # "none" /\ IsRunning(act[prevLoop])
                       THEN [act EXCEPT ![prevLoop] = "fadingOut"]
                       ELSE IF IsRunning(act["idle"])
                       THEN [act EXCEPT !["idle"] = "fadingOut"]
                       ELSE act
             /\ gPrev' = [gPrev EXCEPT ![c] = IF prevTalking # "none" THEN prevTalking
                                              ELSE IF prevLoop # "none" THEN prevLoop
                                              ELSE "idle"]
             /\ gAct' = [gAct EXCEPT ![c] = "playing"]
             /\ gPc' = [gPc EXCEPT ![c] = "playing"]
             /\ UNCHANGED gLeft
     ELSE /\ gLeft' = [gLeft EXCEPT ![c] = @ - 1]
          /\ gPc' = [gPc EXCEPT ![c] = IF gLeft[c] > 1 THEN "loading" ELSE "done"]
          /\ UNCHANGED <<act, gAct, gPrev>>
  /\ UNCHANGED <<cfgVars, loadVars, retargetVars, faceVars, blendVars, dynTypingVars, bvhVars,
                 speechVars, locoVars, animationState, currentLoopAction,
                 currentLoopIndex, currentlyPlayingTalkingAction, typingActive,
                 typingQuat, typingHoldTimer, holdSurvivedSpeech, skeletonPose, modelRoot,
                 typingListener,
                 headQuat>>

\* ------------------------------------------------------------ asset loaders
Fetch(loader, url) == [loader |-> loader, url |-> url, state |-> "pending"]

\* loadGLTFCached(url): the cached promise, or a new loader.loadAsync(url)
LoadGLTFCached(url) ==
  /\ Len(awaited) < MaxLoads
  /\ IF gltfPromiseCache[url] = 0
     THEN /\ fetches' = Append(fetches, Fetch("gltf", url))
          /\ gltfPromiseCache' = [gltfPromiseCache EXCEPT ![url] = Len(fetches) + 1]
          /\ awaited' = Append(awaited, Len(fetches) + 1)
     ELSE /\ awaited' = Append(awaited, gltfPromiseCache[url])
          /\ UNCHANGED <<fetches, gltfPromiseCache>>
  /\ UNCHANGED <<cfgVars, retargetVars, faceVars, blendVars, dynTypingVars, bvhVars,
                 speechVars, layerVars,
                 locoVars, gestureVars,
                 fbxPromiseCache>>

\* loadFBXCached(url): the cached promise, or a new loader.loadAsync(url)
LoadFBXCached(url) ==
  /\ Len(awaited) < MaxLoads
  /\ IF fbxPromiseCache[url] = 0
     THEN /\ fetches' = Append(fetches, Fetch("fbx", url))
          /\ fbxPromiseCache' = [fbxPromiseCache EXCEPT ![url] = Len(fetches) + 1]
          /\ awaited' = Append(awaited, Len(fetches) + 1)
     ELSE /\ awaited' = Append(awaited, fbxPromiseCache[url])
          /\ UNCHANGED <<fetches, fbxPromiseCache>>
  /\ UNCHANGED <<cfgVars, retargetVars, faceVars, blendVars, dynTypingVars, bvhVars,
                 speechVars, layerVars,
                 locoVars, gestureVars,
                 gltfPromiseCache>>

\* new BVHLoader().load(url, ...) in playAnimation: every request starts a fetch
LoadBVH(url) ==
  /\ Len(awaited) < MaxLoads
  /\ fetches' = Append(fetches, Fetch("bvh", url))
  /\ awaited' = Append(awaited, Len(fetches) + 1)
  /\ UNCHANGED <<cfgVars, retargetVars, faceVars, blendVars, dynTypingVars, bvhVars,
                 speechVars, layerVars,
                 locoVars, gestureVars,
                 gltfPromiseCache,
                 fbxPromiseCache>>

\* a fetch settles: the file is parsed, or the request or the parse fails
LoadSettled(f, ok) ==
  /\ f \in DOMAIN fetches
  /\ fetches[f].state = "pending"
  /\ fetches' = [fetches EXCEPT ![f].state = IF ok THEN "ok" ELSE "error"]
  /\ UNCHANGED <<cfgVars, retargetVars, faceVars, blendVars, dynTypingVars, bvhVars,
                 speechVars, layerVars,
                 locoVars, gestureVars,
                 gltfPromiseCache,
                 fbxPromiseCache, awaited>>

\* -------------------------------------------------------------- retargeting
\* A bone name is a sequence of tokens: a convention prefix ("mixamorig", or
\* "Mixamorig" for any other casing of it), the separator ":" and a joint name.
\* A track name is a bone name, a dot and a property.

\* the joints of the model: two that boneNameMap maps and one it does not know
Joints == {"Hips", "LeftHand", "Tail"}

\* how a source file may write the convention prefix: absent, in the casing of
\* the table or in another one, with or without the separator, or twice
Prefixes == {<<>>, <<"mixamorig">>, <<"mixamorig", ":">>, <<"Mixamorig">>,
             <<"Mixamorig", ":">>, <<"mixamorig", "mixamorig">>}

Track(bone, prop) == [bone |-> bone, prop |-> prop]

SourceTracks ==
  {Track(p \o <<j>>, prop) : p \in Prefixes, j \in Joints,
                             prop \in {"position", "quaternion"}}

\* the clips a loader may deliver
SourceClips == UNION {[1..n -> SourceTracks] : n \in 0..MaxTracks}

\* /mixamorig/i matches the token
IsPrefixToken(t) == t \in {"mixamorig", "Mixamorig"}

\* canonicalize: name.replace(/mixamorig:/gi, "mixamorig")
RECURSIVE canonicalize(_)
canonicalize(name) ==
  IF Len(name) >= 2 /\ IsPrefixToken(name[1]) /\ name[2] = ":"
  THEN <<"mixamorig">> \o canonicalize(SubSeq(name, 3, Len(name)))
  ELSE IF Len(name) >= 1 THEN <<name[1]>> \o canonicalize(Tail(name))
  ELSE <<>>

\* boneNameMap[key]: "mixamorig<Joint>" -> "<Joint>" for the joints of the table
\* (<<>> = undefined)
boneNameMap(key) ==
  IF Len(key) = 2 /\ key[1] = "mixamorig" /\ key[2] \in {"Hips", "LeftHand"}
  THEN <<key[2]>>
  ELSE <<>>

\* /^(Hips|Spine|Spine1|Spine2|Neck|Head|Left|Right)/.test(canon)
TargetStyle(canon) == Len(canon) >= 1 /\ canon[1] \in {"Hips", "LeftHand"}

\* the filter of retargetClip: a position track of the root joint
IsRootPos(track) ==
  LET canon == canonicalize(track.bone)
  IN /\ track.prop = "position"
     /\ (canon = <<"mixamorig", "Hips">> \/ canon = <<"Hips">>)

\* a rename that strips the prefix without looking the remainder up in the table
RetargetTrackWithoutRetry(track) ==
  LET boneRaw == track.bone
      canon == canonicalize(boneRaw)
      targetBone ==
        IF boneNameMap(canon) # <<>> THEN boneNameMap(canon)
        ELSE IF TargetStyle(canon) THEN canon
        ELSE IF Len(canon) >= 1 /\ IsPrefixToken(canon[1]) THEN Tail(canon)
        ELSE canon
  IN IF targetBone # <<>> /\ targetBone # boneRaw
     THEN Track(targetBone, track.prop)
     ELSE track

\* the forEach of retargetClip: the new name of one track
RetargetTrack(track) ==
  LET boneRaw == track.bone
      canon == canonicalize(boneRaw)
      stripped == Tail(canon)
      targetBone ==
        IF boneNameMap(canon) # <<>> THEN boneNameMap(canon)
        ELSE IF TargetStyle(canon) THEN canon
        ELSE IF Len(canon) >= 1 /\ IsPrefixToken(canon[1])
        THEN IF boneNameMap(stripped) # <<>> THEN boneNameMap(stripped) ELSE stripped
        ELSE canon
  IN IF targetBone # <<>> /\ targetBone # boneRaw
     THEN Track(targetBone, track.prop)
     ELSE track

\* retargetClip(clip), as the track list it leaves in clip.tracks
retargetClip(tracks) ==
  LET kept == SelectSeq(tracks, LAMBDA t : ~IsRootPos(t))
  IN [i \in 1..Len(kept) |-> RetargetTrack(kept[i])]

\* the dedupe loop of playGestures: the first rotation track of each hand is kept
RECURSIVE DedupeHands(_, _)
DedupeHands(tracks, seenQuat) ==
  IF tracks = <<>> THEN <<>>
  ELSE LET t == Head(tracks)
           hand == t.prop = "quaternion" /\ t.bone = <<"LeftHand">>
       IN IF hand /\ t \in seenQuat THEN DedupeHands(Tail(tracks), seenQuat)
          ELSE <<t>> \o DedupeHands(Tail(tracks), IF hand THEN seenQuat \cup {t}
                                                  ELSE seenQuat)

\* a loader delivers a clip (loaded.animations[0])
ClipLoaded(tracks) ==
  /\ ~clipLoaded
  /\ clipLoaded' = TRUE
  /\ clipGiven' = tracks
  /\ clipTracks' = tracks
  /\ UNCHANGED <<cfgVars, loadVars, faceVars, blendVars, dynTypingVars, bvhVars,
                 speechVars, layerVars,
                 locoVars,
                 gestureVars,
                 clipPasses, clipDeduped>>

\* retargetClip(clip): clip.tracks is replaced and the tracks are renamed in
\* place; the clip object itself is returned
Retarget ==
  /\ clipLoaded /\ ~clipDeduped
  /\ clipPasses < MaxPasses
  /\ clipTracks' = retargetClip(clipTracks)
  /\ clipPasses' = clipPasses + 1
  /\ UNCHANGED <<cfgVars, loadVars, faceVars, blendVars, dynTypingVars, bvhVars,
                 speechVars, layerVars,
                 locoVars,
                 gestureVars,
                 clipLoaded, clipGiven, clipDeduped>>

\* playGestures after its retargetClip: clip.tracks = deduped
DedupeGestureTracks ==
  /\ clipLoaded /\ ~clipDeduped
  /\ clipPasses = 1
  /\ clipTracks' = DedupeHands(clipTracks, {})
  /\ clipDeduped' = TRUE
  /\ UNCHANGED <<cfgVars, loadVars, faceVars, blendVars, dynTypingVars, bvhVars,
                 speechVars, layerVars,
                 locoVars,
                 gestureVars,
                 clipLoaded, clipGiven, clipPasses>>

\* ------------------------------------------------------- morph application
\* const LERP_SPEED = 10
LERP_SPEED == 10

\* THREE.MathUtils.lerp(x, y, t) = x + (y - x) * t, with t = num / den
Lerp(x, y, num, den) == x + ((y - x) * num) \div den

\* a target of the entry is set (a cue, the jaw amount, a gaze target, an
\* emotion weight), within [0,1]
SetMorphTarget(target) ==
  /\ morphTarget' = target
  /\ UNCHANGED <<cfgVars, loadVars, retargetVars, faceVars, speechVars, layerVars,
                 locoVars, gestureVars, morphInfluence, dynTypingVars, bvhVars>>

\* the morph target application of animate for one entry:
\* influences[index] = lerp(influences[index] ?? 0, target, LERP_SPEED * delta),
\* delta in hundredths of a second.  The entry is followed until it first
\* leaves [0,1].
ApplyMorphTarget(delta) ==
  /\ morphInfluence \in 0..WeightScale
  /\ morphInfluence' = Lerp(morphInfluence, morphTarget, LERP_SPEED * delta, 100)
  /\ UNCHANGED <<cfgVars, loadVars, retargetVars, faceVars, speechVars, layerVars,
                 locoVars, gestureVars, morphTarget, dynTypingVars, bvhVars>>

\* ------------------------------------------- typing clip loaded on demand
\* No typing clip came with the asset load (none is configured, or its load
\* failed), so typingActionRef is null until a setTyping call has loaded one.

\* Promise.all(promises).then(...) when typingFbx is absent: no typing action is
\* created and no typing listener is attached
AssetsLoadedWithoutTyping ==
  /\ ~loaded
  /\ loaded' = TRUE
  /\ act' = [act EXCEPT !["idle"] = "playing",
                        !["intro"] = IF introAnimationUrl THEN "playing" ELSE "off"]
  /\ UNCHANGED <<introAnimationUrl, loopActions, loadVars, retargetVars, faceVars,
                 blendVars, dynTypingVars, bvhVars, speechVars, locoVars, gestureVars,
                 animationState, currentLoopAction, currentLoopIndex,
                 currentlyPlayingTalkingAction, typingActive, typingQuat,
                 typingHoldTimer, holdSurvivedSpeech, skeletonPose, modelRoot, headQuat,
                 typingListener>>

\* currentLoopActionRef.current?.isRunning() -> fadeOut, else idle.isRunning() -> fadeOut
FadeLoopOrIdle(actions) ==
  IF currentLoopAction # "none" /\ IsRunning(actions[currentLoopAction])
  THEN [actions EXCEPT ![currentLoopAction] = "fadingOut"]
  ELSE IF IsRunning(actions["idle"]) THEN [actions EXCEPT !["idle"] = "fadingOut"]
  ELSE actions

\* setTyping(isTyping), the k-th call: while typingActionRef is null the wanted
\* state is recorded and a load of the typing clip is started; afterwards the
\* call plays or releases the action typingActionRef holds
SetTypingDynamic(k, isTyping) ==
  /\ dynPc[k] = "unissued"
  /\ \A j \in TypingCalls : j < k => dynPc[j] # "unissued"
  /\ IF ~loaded
     THEN /\ typingActive' = FALSE
          /\ dynPc' = [dynPc EXCEPT ![k] = "returned"]
          /\ UNCHANGED <<act, dynAct, typingHoldTimer, holdSurvivedSpeech, typingQuat,
                         currentLoopIndex, currentLoopAction>>
     ELSE IF dynTypingAction = 0
     THEN /\ typingActive' = isTyping
          /\ dynPc' = [dynPc EXCEPT ![k] = "loading"]
          /\ UNCHANGED <<act, dynAct, typingHoldTimer, holdSurvivedSpeech, typingQuat,
                         currentLoopIndex, currentLoopAction>>
     ELSE /\ dynPc' = [dynPc EXCEPT ![k] = "returned"]
          /\ IF isTyping = typingActive
             THEN UNCHANGED <<typingActive, act, dynAct, typingHoldTimer,
                              holdSurvivedSpeech, typingQuat, currentLoopIndex,
                              currentLoopAction>>
             ELSE IF isTyping
             THEN /\ typingActive' = TRUE
                  /\ act' = FadeLoopOrIdle(act)
                  /\ dynAct' = [dynAct EXCEPT ![dynTypingAction] = "playing"]
                  /\ UNCHANGED <<typingHoldTimer, holdSurvivedSpeech, typingQuat,
                                 currentLoopIndex, currentLoopAction>>
             ELSE /\ typingActive' = FALSE
                  /\ typingHoldTimer' = NoTimer
                  /\ holdSurvivedSpeech' = FALSE
                  /\ typingQuat' = "none"
                  /\ act' = ResumeLoopOrIdle.act
                  /\ currentLoopIndex' = ResumeLoopOrIdle.index
                  /\ currentLoopAction' = ResumeLoopOrIdle.loopAction
                  /\ UNCHANGED dynAct
  /\ UNCHANGED <<cfgVars, loadVars, retargetVars, faceVars, blendVars, bvhVars,
                 speechVars,
                 locoVars, gestureVars, animationState, currentlyPlayingTalkingAction,
                 skeletonPose, modelRoot, typingListener, headQuat, dynListener,
                 dynTypingAction>>

\* the load started by the k-th call settles.  ok: a typing action is created
\* from a clone of the clip, stored in typingActionRef, played when typing is
\* still wanted, and its finished listener is attached; otherwise no candidate
\* could be loaded and the typing state is cleared
DynTypingLoaded(k, ok) ==
  /\ dynPc[k] = "loading"
  /\ IF ok
     THEN /\ dynPc' = [dynPc EXCEPT ![k] = "created"]
          /\ dynTypingAction' = k
          /\ dynAct' = [dynAct EXCEPT ![k] = IF typingActive THEN "playing" ELSE "off"]
          /\ act' = IF typingActive THEN FadeLoopOrIdle(act) ELSE act
          /\ dynListener' = [dynListener EXCEPT ![k] = TRUE]
          /\ UNCHANGED typingActive
     ELSE /\ dynPc' = [dynPc EXCEPT ![k] = "failed"]
          /\ typingActive' = FALSE
          /\ UNCHANGED <<dynTypingAction, dynAct, act, dynListener>>
  /\ UNCHANGED <<cfgVars, loadVars, retargetVars, faceVars, blendVars, bvhVars,
                 speechVars,
                 locoVars, gestureVars, animationState, currentLoopAction,
                 currentLoopIndex, currentlyPlayingTalkingAction, typingQuat,
                 typingHoldTimer, holdSurvivedSpeech, skeletonPose, modelRoot,
                 typingListener, headQuat>>

\* the typing action created by the k-th call reaches its end: onDynFinished
\* detaches itself, captures the head and neck pose and starts the hold delay
DynTypingFinished(k) ==
  /\ dynAct[k] = "playing"
  /\ dynAct' = [dynAct EXCEPT ![k] = "clamped"]
  /\ IF dynListener[k]
     THEN /\ dynListener' = [dynListener EXCEPT ![k] = FALSE]
          /\ typingQuat' = "held"
          /\ typingHoldTimer' = HoldDelay
          /\ holdSurvivedSpeech' = FALSE
     ELSE UNCHANGED <<dynListener, typingQuat, typingHoldTimer, holdSurvivedSpeech>>
  /\ UNCHANGED <<cfgVars, loadVars, retargetVars, faceVars, blendVars, bvhVars,
                 speechVars,
                 locoVars, gestureVars, animationState, act, currentLoopAction,
                 currentLoopIndex, currentlyPlayingTalkingAction, typingActive,
                 skeletonPose, modelRoot, typingListener, headQuat, dynPc,
                 dynTypingAction>>

\* ------------------------------------------------- motion sequence player
\* BVHAnimationPlayer.play (src/CharacterController.tsx).  A call hides the
\* model, stops the mixer, loads and retargets the motion files, shows the
\* model again and plays the clips one after the other; every await of the
\* call is a point where other calls and mixer events interleave.

\* mixer.stopAllAction(), on the sequence actions created so far
StopAllSequences ==
  [c \in BvhCalls |-> [i \in Clips |-> IF seqAct[c][i] = "none" THEN "none" ELSE "off"]]

\* catch (error): the mixer is stopped and idle is faded back in; rootObj is
\* neither added to its parent nor made visible
BvhCatch(c) ==
  /\ bvhPc' = [bvhPc EXCEPT ![c] = "failed"]
  /\ seqAct' = StopAllSequences
  /\ otherAct' = "off"
  /\ bvhIdle' = "playing"
  /\ UNCHANGED <<modelAttached, modelVisible, currentActionIndex, seqListener,
                 idleRestarts>>

\* play(animationObjects, bvhUrls) up to its first await: n urls are given;
\* objects tells whether the animation objects are provided and whether the
\* model holds a skinned mesh
BvhPlay(c, n, objects) ==
  /\ bvhPc[c] = "unissued"
  /\ \A b \in BvhCalls : b < c => bvhPc[b] # "unissued"
  /\ CASE objects = "missing" ->
            /\ bvhPc' = [bvhPc EXCEPT ![c] = "returned"]
            /\ UNCHANGED <<bvhCount, hadParent, modelAttached, modelVisible, bvhIdle,
                           otherAct, seqAct, currentActionIndex, seqListener,
                           idleRestarts>>
       [] objects = "noMesh" ->
            /\ BvhCatch(c)
            /\ UNCHANGED <<bvhCount, hadParent>>
       [] OTHER ->
            /\ bvhPc' = [bvhPc EXCEPT ![c] = "hiding"]
            /\ bvhCount' = [bvhCount EXCEPT ![c] = n]
            /\ hadParent' = [hadParent EXCEPT ![c] = modelAttached]
            /\ IF modelAttached
               THEN modelAttached' = FALSE /\ UNCHANGED modelVisible
               ELSE modelVisible' = FALSE /\ UNCHANGED modelAttached
            /\ UNCHANGED <<bvhIdle, otherAct, seqAct, currentActionIndex, seqListener,
                           idleRestarts>>
  /\ UNCHANGED <<cfgVars, speechVars, layerVars, locoVars, gestureVars, loadVars,
                 retargetVars, faceVars, blendVars, dynTypingVars>>

\* after the hidden frame and the extra sleep: mixer.stopAllAction() and
\* skeleton.pose(); the call then waits a frame and for loadBVHFiles
BvhReset(c) ==
  /\ bvhPc[c] = "hiding"
  /\ bvhPc' = [bvhPc EXCEPT ![c] = "loading"]
  /\ seqAct' = StopAllSequences
  /\ otherAct' = "off"
  /\ bvhIdle' = "off"
  /\ UNCHANGED <<bvhCount, hadParent, modelAttached, modelVisible, currentActionIndex,
                 seqListener, idleRestarts>>
  /\ UNCHANGED <<cfgVars, speechVars, layerVars, locoVars, gestureVars, loadVars,
                 retargetVars, faceVars, blendVars, dynTypingVars>>

\* loadBVHFiles settles and the clips are retargeted.  A rejected load, an
\* empty list of clips and a throw of retargetClip go to the catch block;
\* otherwise the sequence actions are created, onActionFinished is attached,
\* rootObj is shown again and the call waits for the opacity fades
BvhLoaded(c, outcome) ==
  /\ bvhPc[c] = "loading"
  /\ IF outcome # "ok" \/ bvhCount[c] = 0
     THEN BvhCatch(c)
     ELSE /\ bvhPc' = [bvhPc EXCEPT ![c] = "revealing"]
          /\ seqAct' = [seqAct EXCEPT ![c] =
                          [i \in Clips |-> IF i <= bvhCount[c] THEN "off" ELSE "none"]]
          /\ currentActionIndex' = [currentActionIndex EXCEPT ![c] = 0]
          /\ seqListener' = [seqListener EXCEPT ![c] = TRUE]
          /\ IF hadParent[c]
             THEN modelAttached' = TRUE /\ UNCHANGED modelVisible
             ELSE modelVisible' = TRUE /\ UNCHANGED modelAttached
          /\ UNCHANGED <<bvhIdle, otherAct, idleRestarts>>
  /\ UNCHANGED <<bvhCount, hadParent>>
  /\ UNCHANGED <<cfgVars, speechVars, layerVars, locoVars, gestureVars, loadVars,
                 retargetVars, faceVars, blendVars, dynTypingVars>>

\* after the opacity fades: idleAction.fadeOut and sequenceActions[0].play();
\* play returns
BvhStart(c) ==
  /\ bvhPc[c] = "revealing"
  /\ bvhPc' = [bvhPc EXCEPT ![c] = "started"]
  /\ bvhIdle' = IF IsRunning(bvhIdle) THEN "fadingOut" ELSE bvhIdle
  /\ seqAct' = [seqAct EXCEPT ![c][1] = "playing"]
  /\ UNCHANGED <<bvhCount, hadParent, modelAttached, modelVisible, otherAct,
                 currentActionIndex, seqListener, idleRestarts>>
  /\ UNCHANGED <<cfgVars, speechVars, layerVars, locoVars, gestureVars, loadVars,
                 retargetVars, faceVars, blendVars, dynTypingVars>>

\* the test at the head of onActionFinished of call d, for the finished event
\* of clip i of call c (c = 0: an action that belongs to no sequence)
HandlerAcceptsAnyFinished(d, c, i) == TRUE

HandlerAccepts(d, c, i) == d = c /\ i = currentActionIndex[d] + 1

\* the mixer dispatches the finished event of clip i of call c (c = 0: of an
\* action outside the sequences) to every attached onActionFinished
DispatchFinished(c, i) ==
  LET accepting == {d \in BvhCalls : seqListener[d] /\ HandlerAccepts(d, c, i)}
      last(d) == currentActionIndex[d] + 1 >= bvhCount[d]
  IN /\ currentActionIndex' =
          [d \in BvhCalls |-> IF d \in accepting THEN currentActionIndex[d] + 1
                              ELSE currentActionIndex[d]]
     /\ seqListener' =
          [d \in BvhCalls |-> IF d \in accepting /\ last(d) THEN FALSE
                              ELSE seqListener[d]]
     /\ seqAct' =
          [d \in BvhCalls |-> [j \in Clips |->
             LET base == IF d = c /\ j = i THEN "clamped" ELSE seqAct[d][j]
             IN IF d \notin accepting THEN base
                ELSE IF j = currentActionIndex[d] + 1 THEN "fadingOut"
                ELSE IF j = currentActionIndex[d] + 2 /\ ~last(d) THEN "playing"
                ELSE base]]
     /\ bvhIdle' = IF \E d \in accepting : last(d) THEN "playing" ELSE bvhIdle
     /\ idleRestarts' =
          [d \in BvhCalls |-> IF d \in accepting /\ last(d) THEN idleRestarts[d] + 1
                              ELSE idleRestarts[d]]

\* mixer.update: clip i of call c, played once and clamped, reaches its end
SequenceClipFinished(c, i) ==
  /\ seqAct[c][i] = "playing"
  /\ DispatchFinished(c, i)
  /\ UNCHANGED <<bvhPc, bvhCount, hadParent, modelAttached, modelVisible, otherAct>>
  /\ UNCHANGED <<cfgVars, speechVars, layerVars, locoVars, gestureVars, loadVars,
                 retargetVars, faceVars, blendVars, dynTypingVars>>

\* another component plays a one-shot action on the same mixer
OtherActionPlay ==
  /\ otherAct # "playing"
  /\ otherAct' = "playing"
  /\ UNCHANGED <<bvhPc, bvhCount, hadParent, modelAttached, modelVisible, bvhIdle,
                 seqAct, currentActionIndex, seqListener, idleRestarts>>
  /\ UNCHANGED <<cfgVars, speechVars, layerVars, locoVars, gestureVars, loadVars,
                 retargetVars, faceVars, blendVars, dynTypingVars>>

\* mixer.update: that action reaches its end
OtherActionFinished ==
  /\ otherAct = "playing"
  /\ otherAct' = "clamped"
  /\ DispatchFinished(0, 0)
  /\ UNCHANGED <<bvhPc, bvhCount, hadParent, modelAttached, modelVisible>>
  /\ UNCHANGED <<cfgVars, speechVars, layerVars, locoVars, gestureVars, loadVars,
                 retargetVars, faceVars, blendVars, dynTypingVars>>

\* ----------------------------------------------------------- specifications
\* the speech engine alone: speak requests, the audio clock and the render tick
NextSpeech ==
  \/ AssetsLoaded
  \/ \E u \in Utter, e \in Emotions : Speak(u, e)
  \/ \E u \in Utter : SpeakBase64(u)
  \/ \E u \in Utter, e \in Emotions : BlobReady(u, e)
  \/ \E u \in Utter, cues \in CueLists, dur \in 1..MaxDur : FetchDone(u, cues, dur)
  \/ \E u \in Utter : FetchFail(u)
  \/ \E u \in Utter : SourceEnded(u)
  \/ \E u \in Utter : CoolDownFire(u)
  \/ \E fb \in {"none"} \cup OneShots, fd \in BOOLEAN : Tick(fb, 0, 0, fd)
  \/ AdvanceTime

\* the speech claims do not depend on the optional clips: none is configured
InitSpeech == Init /\ ~introAnimationUrl /\ loopActions = <<>>

SpecSpeech == InitSpeech /\ [][NextSpeech]_vars

\* the locomotion engine alone: playAnimation, resetToIdle and the render tick
NextLoco ==
  \/ AssetsLoaded
  \/ \E fb \in {"none"} \cup OneShots, fl \in 0..MaxLoco, fd \in BOOLEAN :
       Tick(fb, fl, 0, fd)
  \/ \E r \in LocoIds : PlayAnimation(r)
  \/ \E r \in LocoIds : LocoLoadError(r)
  \/ \E r \in LocoIds, o \in {"ok", "noclip", "throws"} : LocoLoaded(r, o)
  \/ \E r \in LocoIds : LocoRestore(r)
  \/ \E r \in LocoIds : LocoResolve(r)
  \/ ResetToIdle

SpecLoco == Init /\ [][NextLoco]_vars

\* the lip-sync path alone: speak requests by URL whose audio decodes, the
\* audio clock and the render tick
NextLipSync ==
  \/ AssetsLoaded
  \/ \E u \in Utter : Speak(u, "neutral")
  \/ \E u \in Utter, cues \in CueLists, dur \in 1..MaxDur : FetchDone(u, cues, dur)
  \/ \E u \in Utter : SourceEnded(u)
  \/ \E u \in Utter : CoolDownFire(u)
  \/ \E fd \in BOOLEAN : Tick("none", 0, 0, fd)
  \/ AdvanceTime

SpecLipSync == InitSpeech /\ [][NextLipSync]_vars

\* the layers only look at whether a cue list is empty
LayerCueLists == {<<>>, <<Cue(0, "viseme_aa")>>}

\* the animation layers around one utterance and one locomotion clip: typing
\* sessions, the playlist, the intro clip and the render tick
NextLayers ==
  \/ AssetsLoaded
  \/ \E b \in BOOLEAN : SetTyping(b)
  \/ TypingHoldFire
  \/ Speak(1, "neutral")
  \/ \E cues \in LayerCueLists : FetchDone(1, cues, 1)
  \/ SourceEnded(1)
  \/ CoolDownFire(1)
  \/ PlayAnimation(1)
  \/ LocoLoaded(1, "ok")
  \/ LocoRestore(1)
  \/ LocoResolve(1)
  \/ \E fb \in {"none"} \cup OneShots, fl \in 0..1, fd \in BOOLEAN : Tick(fb, fl, 0, fd)
  \/ AdvanceTime

SpecLayers == Init /\ [][NextLayers]_vars

\* the typing overlay around one utterance, without locomotion
NextTyping ==
  \/ AssetsLoaded
  \/ \E b \in BOOLEAN : SetTyping(b)
  \/ TypingHoldFire
  \/ Speak(1, "neutral")
  \/ \E cues \in LayerCueLists : FetchDone(1, cues, 1)
  \/ SourceEnded(1)
  \/ CoolDownFire(1)
  \/ \E fb \in {"none"} \cup OneShots, fd \in BOOLEAN : Tick(fb, 0, 0, fd)
  \/ AdvanceTime

SpecTyping == Init /\ [][NextTyping]_vars

\* the gesture overlay alone: playGestures calls and the render tick
NextGesture ==
  \/ AssetsLoaded
  \/ \E c \in GestureCalls, n \in 1..MaxGestures : PlayGestures(c, n)
  \/ \E c \in GestureCalls : GestureReady(c)
  \/ \E c \in GestureCalls : GestureAbort(c)
  \/ \E c \in GestureCalls, ok \in BOOLEAN : GestureLoaded(c, ok)
  \/ \E fb \in {"none"} \cup OneShots, fg \in 0..MaxGestureCalls, fd \in BOOLEAN :
       Tick(fb, 0, fg, fd)

SpecGesture == Init /\ [][NextGesture]_vars

\* one playGestures call on top of typing sessions
NextOverlay ==
  \/ AssetsLoaded
  \/ \E b \in BOOLEAN : SetTyping(b)
  \/ TypingHoldFire
  \/ \E n \in 1..MaxGestures : PlayGestures(1, n)
  \/ GestureReady(1)
  \/ GestureAbort(1)
  \/ \E ok \in BOOLEAN : GestureLoaded(1, ok)
  \/ \E fb \in {"none"} \cup OneShots, fg \in 0..1, fd \in BOOLEAN : Tick(fb, 0, fg, fd)
  \/ AdvanceTime

SpecOverlay == Init /\ [][NextOverlay]_vars

\* the load requests of the engine: the model and the clips of the asset load,
\* gesture and typing clips, locomotion clips
NextLoad ==
  \/ \E url \in Urls : LoadGLTFCached(url)
  \/ \E url \in Urls : LoadFBXCached(url)
  \/ \E url \in Urls : LoadBVH(url)
  \/ \E f \in 1..MaxLoads, ok \in BOOLEAN : LoadSettled(f, ok)

SpecLoad == Init /\ [][NextLoad]_vars

\* the retargeting adapter alone: a clip is delivered, retargeted (once, or
\* again when the same clip object is loaded from a cache) and deduplicated
NextRetarget ==
  \/ ~clipLoaded /\ \E tracks \in SourceClips : ClipLoaded(tracks)
  \/ Retarget
  \/ DedupeGestureTracks

SpecRetarget == Init /\ [][NextRetarget]_vars

\* the face of the avatar during typing sessions and one locomotion clip
NextFace ==
  \/ AssetsLoaded
  \/ \E b \in BOOLEAN : SetTyping(b)
  \/ TypingHoldFire
  \/ PlayAnimation(1)
  \/ LocoLoaded(1, "ok")
  \/ LocoRestore(1)
  \/ LocoResolve(1)
  \/ \E fb \in {"none", "typing"}, fl \in 0..1, fd \in BOOLEAN, blinkDue \in BOOLEAN,
        saccade \in {"none", "up", "down"} : Animate(fb, fl, 0, fd, blinkDue, saccade)
  \/ AdvanceTime

SpecFace == InitSpeech /\ [][NextFace]_vars

\* the smoothing of one blendshape weight toward its target, frame by frame
NextBlend ==
  \/ \E target \in 0..WeightScale : SetMorphTarget(target)
  \/ \E delta \in 0..MaxDelta : ApplyMorphTarget(delta)

SpecBlend == Init /\ [][NextBlend]_vars

\* speak requests that supersede one another, by URL and by data: URI, each
\* with one cue at most
NextSupersede ==
  \/ AssetsLoaded
  \/ \E u \in Utter, e \in Emotions : Speak(u, e)
  \/ \E u \in Utter : SpeakBase64(u)
  \/ \E u \in Utter, e \in Emotions : BlobReady(u, e)
  \/ \E u \in Utter, cues \in LayerCueLists : FetchDone(u, cues, 1)
  \/ \E u \in Utter : SourceEnded(u)
  \/ \E u \in Utter : CoolDownFire(u)
  \/ Tick("none", 0, 0, FALSE)
  \/ AdvanceTime

SpecSupersede == InitSpeech /\ [][NextSupersede]_vars

\* one playGestures call around one utterance
NextGestureSpeech ==
  \/ AssetsLoaded
  \/ Speak(1, "neutral")
  \/ \E cues \in LayerCueLists : FetchDone(1, cues, 1)
  \/ SourceEnded(1)
  \/ CoolDownFire(1)
  \/ \E n \in 1..MaxGestures : PlayGestures(1, n)
  \/ GestureReady(1)
  \/ GestureAbort(1)
  \/ \E ok \in BOOLEAN : GestureLoaded(1, ok)
  \/ \E fd \in BOOLEAN, fg \in 0..1 : Tick("none", 0, fg, fd)
  \/ AdvanceTime

SpecGestureSpeech == InitSpeech /\ [][NextGestureSpeech]_vars

\* typing sessions of an avatar whose typing clip is loaded on demand
NextDynTyping ==
  \/ AssetsLoadedWithoutTyping
  \/ \E k \in TypingCalls, b \in BOOLEAN : SetTypingDynamic(k, b)
  \/ \E k \in TypingCalls, ok \in BOOLEAN : DynTypingLoaded(k, ok)
  \/ \E k \in TypingCalls : DynTypingFinished(k)
  \/ TypingHoldFire
  \/ AdvanceTime

SpecDynTyping == Init /\ [][NextDynTyping]_vars

\* the motion sequence player alone: play calls, their awaits and the mixer's
\* finished events
NextBvh ==
  \/ \E c \in BvhCalls, n \in 0..MaxBvhClips, objects \in {"missing", "noMesh", "ok"} :
       BvhPlay(c, n, objects)
  \/ \E c \in BvhCalls : BvhReset(c)
  \/ \E c \in BvhCalls, outcome \in {"loadError", "retargetError", "ok"} :
       BvhLoaded(c, outcome)
  \/ \E c \in BvhCalls : BvhStart(c)
  \/ \E c \in BvhCalls, i \in Clips : SequenceClipFinished(c, i)
  \/ OtherActionPlay
  \/ OtherActionFinished

\* the player does not read the configuration of the canvas: none is drawn
SpecBvh == InitSpeech /\ [][NextBvh]_vars

\* ------------------------------------------------------------------ claims
TickStep == \E fb \in {"none"} \cup OneShots, fl \in 0..MaxLoco,
                 fg \in 0..MaxGestureCalls, fd \in BOOLEAN : Tick(fb, fl, fg, fd)

\* no speak request can still be issued, is in flight, is playing or is cooling down
SpeechTerminal ==
  \A u \in Utter : /\ speakPc[u] \notin {"unissued", "blob", "fetching"}
                   /\ src[u] # "started"
                   /\ coolTimer[u] = NoTimer

\* no locomotion request can still be issued, is loading, is playing or is finishing
LocoTerminal ==
  \A r \in LocoIds : /\ locoPc[r] \notin {"unissued", "loading", "fadeOut", "fadeIn"}
                     /\ locoAct[r] # "playing"

\* C1: at any time at most one audio buffer source is started and not yet
\* stopped or ended, whatever the interleaving of speak requests.
C1_AtMostOneSourcePlaying == Cardinality({u \in Utter : src[u] = "started"}) <= 1

\* C2: once a speak request has begun while the cue list of an earlier
\* utterance was installed, no render tick sets the viseme and jaw targets
\* from a cue of that list.
C2_SupersededCuesNeverDrive ==
  [][(TickStep /\ currentVisemeIndex' > currentVisemeIndex) => ~staleCues]_vars

\* C3: when a locomotion clip has played to completion, the restore step of
\* its finish flow leaves the skeleton in its bind pose, the model root where
\* it was when the request was made, and the idle action playing.
C3_RestoreAfterLocomotion ==
  [][\A r \in LocoIds :
       (locoPc[r] = "fadeOut" /\ locoPc'[r] = "fadeIn")
         => /\ skeletonPose' = "bind"
            /\ modelRoot' = rootAtRequest[r]
            /\ act'["idle"] = "playing"]_vars

C3_Witness ==
  \E r \in LocoIds : /\ locoPc[r] = "fadeIn"
                     /\ skeletonPose = "bind"
                     /\ act["idle"] = "playing"
                     /\ locoAct[r] = "off"

\* C4: a locomotion request that failed never leaves the engine with every
\* action stopped and the skeleton forced to its bind pose.
C4_FailedLoadKeepsAnActionPlaying ==
  \A r \in LocoIds :
    locoPc[r] = "rejected"
      => ~(/\ skeletonPose = "bind"
           /\ \A a \in BaseActions : act[a] = "off"
           /\ \A q \in LocoIds : locoAct[q] \in {"none", "off"})

\* C5: once a speak request has failed to fetch or decode and nothing of the
\* speech engine is pending any more, no cue list is installed (so the
\* recorded state cannot stay Talking).
C5_FailedSpeechReturnsToIdle ==
  (SpeechTerminal /\ \E u \in Utter : speakPc[u] = "failed") => visemes = <<>>

\* C6: every speak request delivers its completion signal: once nothing of
\* the speech engine is pending any more, every request has settled.
C6_EverySpeakSettles ==
  SpeechTerminal => \A u \in Utter : Settled(u)

\* C7: every locomotion request delivers its completion signal: once no
\* request is loading, playing or finishing, every request has settled.
C7_EveryLocomotionSettles ==
  LocoTerminal => \A r \in LocoIds : locoPc[r] \in {"resolved", "rejected"}

\* the latest cue of a sorted list whose onset is at most t (0 = none)
LatestCue(cues, t) ==
  LET begun == {i \in 1..Len(cues) : cues[i].time <= t}
  IN IF begun = {} THEN 0 ELSE CHOOSE i \in begun : \A j \in begun : j <= i

\* C8: while an utterance is playing with its sorted cue list installed, after
\* every render tick at an elapsed time at or after the first onset the viseme
\* target of the latest begun cue is 1, every other viseme target is 0 and the
\* jaw target is that cue's jaw amount.
C8_TargetsFollowLatestCue ==
  [][TickStep =>
       \A u \in Utter :
         (/\ src[u] = "started" /\ audioSourceRef = u /\ visemesOwner = u
          /\ Sorted(visemes)
          /\ LatestCue(visemes, AudioElapsedTime) > 0)
           => LET cue == visemes[LatestCue(visemes, AudioElapsedTime)]
              IN /\ targetVisemeWeights' =
                      [k \in VisemeKeys |-> IF k = cue.value THEN 1 ELSE 0]
                 /\ targetJawOpen' = cue.jaw]_vars

C10_TargetsZeroAfterCoolDown ==
  \A u \in Utter :
    (speakPc[u] = "resolved" /\ latest = u)
      => /\ targetJawOpen = 0
         /\ \A k \in VisemeKeys \ {"viseme_sil"} : targetVisemeWeights[k] = 0

\* some cool-down timer of onended is running
CoolingDown == \E u \in Utter : coolTimer[u] # NoTimer

\* C11: on every render tick during the cool-down after audio completion the
\* recorded state, when it is Talking, is still Talking after the tick.
C11_TalkingThroughCoolDown ==
  [][(TickStep /\ CoolingDown /\ animationState = "talking")
       => animationState' = "talking"]_vars

\* C12: the recorded state changes to Talking only in a step taken while the
\* cue list is non-empty, the state is not Talking and no post-talk cool-down
\* is active, and every render tick taken under these conditions changes it
\* to Talking.
C12_TalkingExactlyWhenCued ==
  [][LET due == /\ Len(visemes) > 0
                /\ animationState # "talking"
                /\ ~isWaitingAfterTalk
     IN /\ (animationState # "talking" /\ animationState' = "talking") => due
        /\ (due /\ animationState' # "talking") => ~TickStep]_vars

C12_Witness ==
  /\ animationState = "talking"
  /\ Len(visemes) > 0
  /\ act["talking"] = "playing"

\* C13: once the configured intro clip has finished, the recorded state is no
\* longer Intro.
C13_IntroEndsInIdle ==
  (introAnimationUrl /\ act["intro"] = "clamped") => animationState # "intro"

\* C14: when a render tick takes the recorded state out of Talking while the
\* typing overlay is not active and the playlist is non-empty, the tick
\* advances the playlist and fades in its next action.
C14_ResumePlaylistAfterTalking ==
  [][(/\ TickStep
      /\ animationState = "talking" /\ animationState' # "talking"
      /\ ~typingActive
      /\ Len(loopActions) > 0)
       => /\ currentLoopIndex' = (currentLoopIndex + 1) % Len(loopActions)
          /\ currentLoopAction' = loopActions[currentLoopIndex' + 1]
          /\ act'[currentLoopAction'] = "playing"]_vars

\* C15: a render tick that runs while the typing overlay is active, or while
\* the camera follows a locomotion clip that does not finish in that tick,
\* does not change the recorded state to Talking.
C15_OverlaysSuspendTalking ==
  [][(TickStep /\ (typingActive \/ (isFollowing /\ isFollowing')))
       => ~(animationState # "talking" /\ animationState' = "talking")]_vars

\* C16: in every typing session, once the typing one-shot has finished while
\* the overlay is active, the head and neck pose is captured and the hold
\* delay that releases the overlay is running.
C16_EveryTypingSessionHolds ==
  (typingActive /\ act["typing"] = "clamped")
    => (typingQuat = "held" /\ typingHoldTimer # NoTimer)

\* C17: after every render tick in which the typing overlay is active and a
\* frozen pose is captured, the head and neck rotation is the captured one.
C17_FreezeWinsTheTick ==
  [][(TickStep /\ typingActive /\ typingQuat' # "none")
       => headQuat' = typingQuat']_vars

\* the overlay is frozen while the interrupt clip, which carries additive
\* head motion, is still running
C17_Witness ==
  /\ typingActive /\ typingQuat = "held" /\ headQuat = "held"
  /\ currentLoopAction = "interrupt" /\ IsRunning(act["interrupt"])
  /\ visemes = <<>>


\* C18: at any time at most one locomotion completion handler is attached to
\* the mixer.
C18_AtMostOneLocoListener ==
  Cardinality({r \in LocoIds : locoListener[r]}) <= 1

\* C19: once a locomotion clip has gone through its restore step and no clip
\* is playing or waiting for its restore, the camera is where it was before
\* locomotion started and the user-interaction settings are as they were.
C19_CameraRestoredAfterLocomotion ==
  (/\ \A q \in LocoIds : locoAct[q] # "playing" /\ locoPc[q] # "fadeOut"
   /\ \E r \in LocoIds : locoPc[r] \in {"fadeIn", "resolved"} /\ locoAct[r] # "none")
    => (cameraPos = "start" /\ controlsEnabled)

\* C20: at no time are two gesture actions playing together.
C20_OneGestureAtATime ==
  Cardinality({c \in GestureCalls : gAct[c] = "playing"}) <= 1


\* C21 as stated: the step that requests gesture overlays leaves the recorded
\* animation state and the typing overlay flag as they were.
C21_GesturesKeepStateAndTyping ==
  [][\A c \in GestureCalls :
       (gPc[c] = "unissued" /\ gPc'[c] = "waiting")
         => (animationState' = animationState /\ typingActive' = typingActive)]_vars

\* C21 amended: no step of playGestures (the call, the end of its wait, a clip
\* loaded, a gesture finished) changes the recorded animation state, and the
\* only change it makes to the typing overlay flag is to clear it at the call.
C21_GesturesKeepAnimationState ==
  [][(gPc' # gPc)
       => /\ animationState' = animationState
          /\ typingActive' # typingActive
               => (~typingActive' /\ \E c \in GestureCalls :
                                       gPc[c] = "unissued" /\ gPc'[c] = "waiting")]_vars

C21_Witness ==
  \E c \in GestureCalls : /\ gPc[c] = "done" /\ gAct[c] \in {"fadingOut", "off"}
                           /\ animationState = "intro"

\* C22: a playGestures call made before the mixer and the body mesh exist
\* changes neither the typing overlay flag, the hold timer, the frozen pose,
\* the head rotation nor the model root, and when its wait runs out before
\* they exist it returns with the same values and without an action played.
C22_TimedOutGesturesChangeNothing ==
  [][\A c \in GestureCalls :
       (~loaded /\ gPc'[c] # gPc[c])
         => /\ UNCHANGED <<typingActive, typingHoldTimer, typingQuat, headQuat,
                            modelRoot, act, gAct>>
            /\ gPc[c] = "waiting" => (gPc'[c] = "done" /\ gAct'[c] = "none")]_vars

C22_Witness ==
  \E c \in GestureCalls : /\ gPc[c] = "done" /\ gAct[c] = "none" /\ ~loaded
                           /\ gLeft[c] > 0

\* C23: asset loads are deduplicated per URL: at no time are two fetches of
\* one URL by one kind of loader in flight (a request for a URL whose load is
\* in flight gets the first request's promise).
C23_LoadsDeduplicated ==
  \A i, j \in DOMAIN fetches :
    (/\ i # j
     /\ fetches[i].url = fetches[j].url /\ fetches[i].loader = fetches[j].loader
     /\ fetches[i].state = "pending")
      => fetches[j].state # "pending"

\* no two tracks of the list have the same bone name and property
DistinctTracks(tracks) ==
  \A i, j \in 1..Len(tracks) : tracks[i] = tracks[j] => i = j

\* C24: retargetClip is idempotent: a call on a clip that has already been
\* retargeted leaves its track list (names and order) as it is.
C24_RetargetIdempotent ==
  [][(clipPasses >= 1 /\ clipPasses' = clipPasses + 1) => clipTracks' = clipTracks]_vars

\* C25: after retargeting a clip whose source track names are pairwise
\* distinct, there is at most one track for every target joint and channel,
\* also when two source bone names map to the same joint.
C25_NoDuplicateChannelTracks ==
  (clipPasses >= 1 /\ DistinctTracks(clipGiven)) => DistinctTracks(clipTracks)

\* C26: a retargeted clip has no position track on the root joint Hips, and a
\* rotation track given for the root under the prefixed convention, with or
\* without the separator, is kept under the name Hips.
C26_NoRootTranslation ==
  clipPasses >= 1
    => /\ \A i \in 1..Len(clipTracks) : clipTracks[i] # Track(<<"Hips">>, "position")
       /\ (\E i \in 1..Len(clipGiven) :
             /\ clipGiven[i].prop = "quaternion"
             /\ canonicalize(clipGiven[i].bone) = <<"mixamorig", "Hips">>)
            => \E j \in 1..Len(clipTracks) : clipTracks[j] = Track(<<"Hips">>, "quaternion")

\* C27: retargetClip does not modify the clip it is given: the track list and
\* the track names of that clip are after the call what they were before it.
C27_RetargetLeavesClipUnchanged ==
  [][clipPasses' # clipPasses => clipTracks' = clipTracks]_vars


\* C28: on a render tick that runs while a locomotion clip is playing or the
\* typing overlay is active, no blink starts and no gaze saccade starts.
C28_OverlaysDisableBlinkAndGaze ==
  [][(\/ typingActive /\ typingActive'
      \/ \E r \in LocoIds : locoAct[r] = "playing" /\ locoAct'[r] = "playing")
       => /\ ~(~isBlinking /\ isBlinking')
          /\ ~(~isLooking /\ isLooking')]_vars

\* C29: a blendshape weight that the render tick smooths toward a target in
\* [0,1] stays within [0,1], whatever the frame delta.
C29_WeightsStayInRange == morphInfluence \in 0..WeightScale

\* C30: the step in which a speak request passes its readiness check, before
\* its audio is fetched, leaves the source the engine held as the current one
\* stopped and detached, no current source, the viseme cursor at 0, every
\* viseme target and the jaw target at 0, the cool-down flag cleared and the
\* requested emotion active.
C30_SpeechResetsAtCallTime ==
  [][\A u \in Utter, e \in Emotions :
       ((Speak(u, e) \/ BlobReady(u, e)) /\ speakPc'[u] = "fetching")
         => /\ audioSourceRef # 0
                 => (src'[audioSourceRef] # "started" /\ ~onended'[audioSourceRef])
            /\ audioSourceRef' = 0
            /\ currentVisemeIndex' = 0
            /\ targetVisemeWeights' = ZeroVisemes
            /\ targetJawOpen' = 0
            /\ ~isWaitingAfterTalk'
            /\ currentSpeechEmotion' = e]_vars

\* a request has superseded an utterance that was playing with its cue begun
C30_Witness ==
  \E u, v \in Utter :
    /\ speakPc[v] = "fetching" /\ latest = v
    /\ src[u] = "stopped" /\ visemesOwner = u
    /\ currentVisemeIndex = 0 /\ targetJawOpen = 0
    /\ currentSpeechEmotion = "happy"

\* the root position tracks removed, the others in their order
KeptTracks(tracks) == SelectSeq(tracks, LAMBDA t : ~IsRootPos(t))

\* the bone name C31 states for a kept track: the table's joint for a known
\* prefixed name, the name itself for a target-style name, else the
\* canonicalized name without its prefix
C31_StatedBone(bone) ==
  LET canon == canonicalize(bone)
  IN IF boneNameMap(canon) # <<>> THEN boneNameMap(canon)
     ELSE IF TargetStyle(canon) THEN bone
     ELSE IF Len(canon) >= 1 /\ IsPrefixToken(canon[1]) THEN Tail(canon)
     ELSE canon

\* the same rule with the second lookup of the code: the name without its
\* prefix is looked up in the table again
C31_RetriedBone(bone) ==
  LET canon == canonicalize(bone)
      stripped == Tail(canon)
  IN IF boneNameMap(canon) # <<>> THEN boneNameMap(canon)
     ELSE IF TargetStyle(canon) THEN bone
     ELSE IF Len(canon) >= 1 /\ IsPrefixToken(canon[1])
     THEN IF boneNameMap(stripped) # <<>> THEN boneNameMap(stripped) ELSE stripped
     ELSE canon

C32_CoolDownSparesLaterUtterance ==
  [][\A a, b \in Utter :
       (/\ coolTimer[a] = 0 /\ coolTimer'[a] = NoTimer
        /\ a \in issuedInCoolDown[b]
        /\ visemesOwner = b)
         => /\ visemes' = visemes
            /\ currentSpeechEmotion' = currentSpeechEmotion
            /\ speakPc'[b] = speakPc[b]]_vars


\* C33: when the typing hold timer fires while the recorded state is Talking,
\* and that timer was pending when a speak request cleared the typing overlay,
\* the timer's callback resets and fades in no action: neither the idle action
\* nor an action of the playlist is started, and the playlist is not advanced.
C33_HoldTimerSparesTalking ==
  [][(/\ typingHoldTimer = 0 /\ typingHoldTimer' = NoTimer
      /\ holdSurvivedSpeech
      /\ animationState = "talking")
       => /\ act' = act
          /\ currentLoopIndex' = currentLoopIndex
          /\ currentLoopAction' = currentLoopAction]_vars


\* C34: camera follow is on only while a locomotion action is playing, and
\* once no locomotion action is playing and no finish flow is waiting for its
\* restore step, the user-interaction settings of the controls are enabled
\* again; in particular after resetToIdle.
C34_FollowOnlyWhileLocomotionPlays ==
  /\ isFollowing => \E r \in LocoIds : locoAct[r] = "playing"
  /\ (\A r \in LocoIds : locoAct[r] # "playing" /\ locoPc[r] # "fadeOut")
       => controlsEnabled


\* C35: when a gesture that was started over the talking loop finishes in a
\* render tick that leaves the recorded state Idle, the talking action is not
\* playing after that tick.
C35_GestureEndKeepsTalkingOff ==
  [][\A c \in GestureCalls :
       (/\ gAct[c] = "playing" /\ gAct'[c] = "fadingOut"
        /\ gPrev[c] = "talking"
        /\ animationState' = "idle")
         => act'["talking"] # "playing"]_vars


\* C36: whatever setTyping calls arrive while the typing clip is being loaded,
\* at most one typing action is ever created, at most one is playing and at
\* most one typing finish handler is attached to the mixer.
C36_OneTypingActionOneHandler ==
  /\ Cardinality({k \in TypingCalls : dynAct[k] # "none"}) <= 1
  /\ Cardinality({k \in TypingCalls : dynAct[k] = "playing"}) <= 1
  /\ Cardinality({k \in TypingCalls : dynListener[k]}) <= 1


\* C37: a request made through loadGLTFCached or loadFBXCached for a URL whose
\* earlier load by that loader has failed starts a new fetch: it is not given
\* the fetch that failed.
C37_FailedLoadNotRemembered ==
  [][(Len(awaited') = Len(awaited) + 1)
       => LET f == awaited'[Len(awaited')]
          IN (/\ fetches'[f].loader # "bvh"
              /\ \E g \in DOMAIN fetches :
                   /\ fetches[g].loader = fetches'[f].loader
                   /\ fetches[g].url = fetches'[f].url
                   /\ fetches[g].state = "error")
               => f = Len(fetches) + 1]_vars


\* C38: when a play call fails after it has hidden the model (rejected load,
\* no clips, throw of the retargeting), the model is attached and visible
\* again when the call returns, every other action is stopped and idle plays.
C38_FailedPlayRestoresModel ==
  [][\A c \in BvhCalls :
       (bvhPc[c] = "loading" /\ bvhPc'[c] = "failed")
         => /\ modelAttached' /\ modelVisible'
            /\ otherAct' = "off"
            /\ \A d \in BvhCalls, i \in Clips : seqAct'[d][i] \in {"none", "off"}
            /\ bvhIdle' = "playing"]_vars

\* the mixer delivers the finished event of clip i of call c in this step
ClipFinishes(c, i) ==
  seqAct[c][i] = "playing" /\ seqAct'[c][i] \in {"clamped", "fadingOut"}

\* C39: the clips of a play call are played in the order of the urls: the
\* first one is started by the call itself, clip i+1 only in the step in which
\* clip i finishes; the finished event of an action outside the sequence
\* changes nothing of it; and when the last clip finishes the handler is
\* removed and idle is faded back in, once per call.
C39_ClipsPlayInOrder ==
  [][\A c \in BvhCalls :
       /\ \A j \in Clips :
            (seqAct[c][j] # "playing" /\ seqAct'[c][j] = "playing")
              => IF j = 1 THEN bvhPc[c] = "revealing" /\ bvhPc'[c] = "started"
                 ELSE ClipFinishes(c, j - 1)
       /\ ((\/ otherAct = "playing" /\ otherAct' = "clamped"
            \/ \E d \in BvhCalls \ {c}, i \in Clips : ClipFinishes(d, i))
             => /\ seqAct'[c] = seqAct[c]
                /\ currentActionIndex'[c] = currentActionIndex[c]
                /\ seqListener'[c] = seqListener[c]
                /\ idleRestarts'[c] = idleRestarts[c])
       /\ (bvhCount[c] > 0 /\ ClipFinishes(c, bvhCount[c]))
            => /\ ~seqListener'[c]
               /\ bvhIdle' = "playing"
               /\ idleRestarts[c] = 0 /\ idleRestarts'[c] = 1
       /\ idleRestarts'[c] <= 1]_vars

\* a call has played its two clips to the end while an action outside the
\* sequence finished as well
C39_Witness ==
  \E c \in BvhCalls :
    /\ bvhCount[c] >= 2 /\ currentActionIndex[c] = bvhCount[c]
    /\ \A i \in 1..bvhCount[c] : seqAct[c][i] = "fadingOut"
    /\ ~seqListener[c] /\ idleRestarts[c] = 1
    /\ otherAct = "clamped"

====
